---------------------------- MODULE Spec2Model ----------------------------
(***************************************************************************)
(* Model of the FPL snapshot comparison tool (src/compare_data.py):        *)
(* FPLDataComparator.generate_comparison_report and the two comparisons it *)
(* calls, compare_players and compare_fixtures.                            *)
(*                                                                         *)
(* Decimal values (prices, ownership percentages, form) are Python floats  *)
(* in the program.  A float is modelled exactly, as a record               *)
(*     [d |-> D, e |-> E]   standing for   D/100 + E * U,                  *)
(* where U = 2^-59 / 100: D is the decimal value in hundredths and E is    *)
(* the binary rounding error the IEEE-754 double carries, in units of U.   *)
(* Every decimal of the model is below 256 and has at most two decimals,   *)
(* so every double that occurs is a whole number of units U and |E * U| is *)
(* far below 0.005.                                                        *)
(***************************************************************************)
EXTENDS Integers, Sequences, FiniteSets, TLC

(***************************************************************************)
(* IEEE-754 double arithmetic, round to nearest, ties to even.             *)
(***************************************************************************)
\* LET x == v IN Body(x), with v evaluated once
Let(v, Body(_)) == Body(v)

Pow2Table == <<1, 2, 4, 8, 16, 32, 64, 128, 256, 512, 1024, 2048, 4096,
               8192, 16384, 32768>>

\* 2^n for n in 0..15
Pow2(n) == Pow2Table[n + 1]

Pow2Mod200Table ==
    <<1, 2, 4, 8, 16, 32, 64, 128, 56, 112, 24, 48, 96, 192, 184, 168, 136,
      72, 144, 88, 176, 152, 104, 8, 16, 32, 64, 128, 56, 112, 24, 48, 96,
      192, 184, 168, 136, 72, 144, 88, 176, 152, 104, 8, 16, 32, 64, 128,
      56, 112, 24, 48, 96, 192, 184, 168, 136, 72, 144, 88, 176, 152, 104,
      8, 16>>

\* 2^k mod 200 for k in 0..64
Pow2Mod200(k) == Pow2Mod200Table[k + 1]

\* floor(log2(D/100)) for a decimal D >= 1 (hundredths) below 256.00
Exponent(D) ==
    CHOOSE x \in -7..7 : /\ 100 * Pow2(x + 7) <= D * 128
                         /\ D * 128 < 100 * Pow2(x + 8)

\* The rounding error, in units U, of the double nearest to the positive
\* real D/100 + X*U (D >= 1).  With er the binary exponent of that real, one
\* unit in the last place is 2^(er-52) = 100 * W units U, W = 2^(er+7), and
\* D/100 = W * (100*M + q) units U, where q2 = (D * 2^(52-er)) mod 200 gives
\* q = q2 mod 100 and the parity of M.  F is the part of the real above
\* M units in the last place; it is rounded to n of them, ties to even.
RoundErr(D, X) ==
    Let(Exponent(D), LAMBDA p :
    Let(IF D * 128 = 100 * Pow2(p + 7) /\ X < 0 THEN p - 1 ELSE p, LAMBDA er :
    Let(Pow2(er + 7), LAMBDA W :
    Let(((D % 200) * Pow2Mod200(52 - er)) % 200, LAMBDA q2 :
    Let(W * (q2 % 100) + X, LAMBDA F :
    Let(F \div (100 * W), LAMBDA n :
    Let(F - n * (100 * W), LAMBDA rem :
    Let(\/ 2 * rem > 100 * W
        \/ (2 * rem = 100 * W /\ ((q2 >= 100) # (n % 2 = 1))), LAMBDA up :
        W * (100 * (IF up THEN n + 1 ELSE n) - (q2 % 100))))))))))

Sign(x) == IF x > 0 THEN 1 ELSE IF x < 0 THEN -1 ELSE 0

\* The double nearest to the decimal hundredths/100: what float("2.40")
\* gives for the string, and what the true division 24 / 10 gives.
DoubleOf(hundredths) ==
    IF hundredths = 0 THEN [d |-> 0, e |-> 0]
    ELSE [d |-> hundredths,
          e |-> Sign(hundredths)
                  * RoundErr(hundredths * Sign(hundredths), 0)]

\* a - b on doubles: the exact difference, rounded once.
FSub(a, b) ==
    Let(a.d - b.d, LAMBDA D :
        IF D = 0 THEN [d |-> 0, e |-> 0]
        ELSE [d |-> D,
              e |-> Sign(D) * RoundErr(D * Sign(D), (a.e - b.e) * Sign(D))])

\* abs(x)
abs(x) == IF x.d < 0 THEN [d |-> -x.d, e |-> -x.e] ELSE x

\* a > b
FGt(a, b) == a.d > b.d \/ (a.d = b.d /\ a.e > b.e)

(***************************************************************************)
(* Text formatting.                                                        *)
(***************************************************************************)
Digit(n) ==
    CASE n = 0 -> "0" [] n = 1 -> "1" [] n = 2 -> "2" [] n = 3 -> "3"
      [] n = 4 -> "4" [] n = 5 -> "5" [] n = 6 -> "6" [] n = 7 -> "7"
      [] n = 8 -> "8" [] n = 9 -> "9"

\* str(n) for a natural number n
RECURSIVE NatStr(_)
NatStr(n) == IF n < 10 THEN Digit(n) ELSE NatStr(n \div 10) \o Digit(n % 10)

\* str(n) for an integer
IntStr(n) == IF n < 0 THEN "-" \o NatStr(-n) ELSE NatStr(n)

\* f"{x:.1f}": the exact binary value of x rounded to one decimal, ties to
\* even, with the sign of x.
Fmt1(x) ==
    Let(abs(x), LAMBDA m :
    Let(m.d \div 10, LAMBDA t :
    Let(\/ m.d % 10 > 5
        \/ (m.d % 10 = 5 /\ (m.e > 0 \/ (m.e = 0 /\ t % 2 = 1))), LAMBDA up :
    Let(IF up THEN t + 1 ELSE t, LAMBDA tt :
        (IF x.d < 0 THEN "-" ELSE "") \o NatStr(tt \div 10) \o "."
            \o Digit(tt % 10)))))

(***************************************************************************)
(* JSON values.  The API mixes types, so a loosely typed field is a tagged *)
(* value: Num(h) is a number or a decimal string of value h/100 ("2.40"),  *)
(* IntV(n) an integer, Text a non-numeric string, Null the JSON null.      *)
(***************************************************************************)
Num(h)  == [kind |-> "num", val |-> h]
IntV(n) == [kind |-> "int", val |-> n]
Text    == [kind |-> "str", val |-> 0]
Null    == [kind |-> "null", val |-> 0]

NoExc == "none"

\* dict.get(key, default)
Get(dict, key, default) == IF key \in DOMAIN dict THEN dict[key] ELSE default

\* The empty dict {}: what load_data returns for a file it cannot read.
EmptyDict == [k \in {} |-> <<>>]

\* float(v): the double, or the exception float() raises.
float(v) ==
    CASE v.kind = "num"  -> [exc |-> NoExc, f |-> DoubleOf(v.val)]
      [] v.kind = "int"  -> [exc |-> NoExc, f |-> DoubleOf(100 * v.val)]
      [] v.kind = "str"  -> [exc |-> "ValueError", f |-> DoubleOf(0)]
      [] v.kind = "null" -> [exc |-> "TypeError", f |-> DoubleOf(0)]

\* n / 10 for an integer n (true division, correctly rounded)
Div10(n) == DoubleOf(10 * n)

\* f"{v}" of a score: an integer, or None
FmtValue(v) == IF v.kind = "null" THEN "None" ELSE IntStr(v.val)

Min(a, b) == IF a < b THEN a ELSE b

Range(seq) == {seq[k] : k \in DOMAIN seq}

\* {r['id']: r for r in records}: a later record replaces an earlier one with
\* the same id.
HasIds(records) == \A k \in DOMAIN records : "id" \in DOMAIN records[k]

\* Faulty variant of Index: the first record of an id is the one kept.
Index_FirstWins(records) ==
    [i \in {records[k].id : k \in DOMAIN records} |->
        LET first == CHOOSE k \in DOMAIN records :
                        /\ records[k].id = i
                        /\ \A j \in DOMAIN records : records[j].id = i => k <= j
        IN  records[first]]

Index(records) ==
    [i \in {records[k].id : k \in DOMAIN records} |->
        LET last == CHOOSE k \in DOMAIN records :
                       /\ records[k].id = i
                       /\ \A j \in DOMAIN records : records[j].id = i => j <= k
        IN  records[last]]

\* The ids of a set in the order a for loop visits them: Python fixes no
\* iteration order for a set, so the order is a parameter, a sequence that
\* holds every id once.
Iter(S, order) == SelectSeq(order, LAMBDA i : i \in S)

\* for id in ids: acc = Step(acc, id), left when a step raises.  The loop
\* over ids is the loop over their first half followed by the loop over
\* their second half.
RECURSIVE ForEach(_, _, _)
ForEach(Step(_, _), acc, ids) ==
    IF ids = <<>> \/ acc.exc # NoExc THEN acc
    ELSE IF Len(ids) = 1 THEN Step(acc, ids[1])
    ELSE ForEach(Step,
                 ForEach(Step, acc, SubSeq(ids, 1, Len(ids) \div 2)),
                 SubSeq(ids, Len(ids) \div 2 + 1, Len(ids)))

Raise(acc, exc) == [acc EXCEPT !.exc = exc]

Append1(acc, category, entry) ==
    [acc EXCEPT !.c[category] = Append(@, entry)]

(***************************************************************************)
(* compare_players                                                         *)
(***************************************************************************)
EmptyPlayerComparison ==
    [price_changes |-> <<>>, ownership_changes |-> <<>>,
     injury_updates |-> <<>>, form_changes |-> <<>>,
     new_players |-> <<>>, removed_players |-> <<>>]

NewPlayerStep(acc, p) ==
    IF ~({"web_name", "team", "now_cost"} \subseteq DOMAIN p)
    THEN Raise(acc, "KeyError")
    ELSE Append1(acc, "new_players",
                 [name |-> p.web_name, team |-> p.team,
                  price |-> Div10(p.now_cost)])

\* Faulty variant of RemovedPlayerStep: the player goes to new_players.
RemovedPlayerStep_WrongList(acc, p) ==
    IF ~({"web_name", "team"} \subseteq DOMAIN p)
    THEN Raise(acc, "KeyError")
    ELSE Append1(acc, "new_players",
                 [name |-> p.web_name, team |-> p.team,
                  price |-> Div10(0)])

RemovedPlayerStep(acc, p) ==
    IF ~({"web_name", "team"} \subseteq DOMAIN p)
    THEN Raise(acc, "KeyError")
    ELSE Append1(acc, "removed_players",
                 [name |-> p.web_name, team |-> p.team])

\* Faulty variant of PriceStep: a cost is compared with a price.
PriceStep_UnitMix(acc, old_p, new_p) ==
    IF acc.exc # NoExc THEN acc
    ELSE IF "now_cost" \notin DOMAIN old_p \/ "now_cost" \notin DOMAIN new_p
    THEN Raise(acc, "KeyError")
    ELSE IF old_p.now_cost # new_p.now_cost \div 10
    THEN IF "web_name" \notin DOMAIN new_p THEN Raise(acc, "KeyError")
         ELSE Append1(acc, "price_changes",
                 [name |-> new_p.web_name,
                  old_price |-> Div10(old_p.now_cost),
                  new_price |-> Div10(new_p.now_cost),
                  change |-> Div10(new_p.now_cost - old_p.now_cost)])
    ELSE acc

\* Faulty variant of PriceStep: the change is old - new.
PriceStep_SignFlip(acc, old_p, new_p) ==
    IF acc.exc # NoExc THEN acc
    ELSE IF "now_cost" \notin DOMAIN old_p \/ "now_cost" \notin DOMAIN new_p
    THEN Raise(acc, "KeyError")
    ELSE IF old_p.now_cost # new_p.now_cost
    THEN IF "web_name" \notin DOMAIN new_p THEN Raise(acc, "KeyError")
         ELSE Append1(acc, "price_changes",
                 [name |-> new_p.web_name,
                  old_price |-> Div10(old_p.now_cost),
                  new_price |-> Div10(new_p.now_cost),
                  change |-> Div10(old_p.now_cost - new_p.now_cost)])
    ELSE acc

PriceStep(acc, old_p, new_p) ==
    IF acc.exc # NoExc THEN acc
    ELSE IF "now_cost" \notin DOMAIN old_p \/ "now_cost" \notin DOMAIN new_p
    THEN Raise(acc, "KeyError")
    ELSE IF old_p.now_cost # new_p.now_cost
    THEN IF "web_name" \notin DOMAIN new_p THEN Raise(acc, "KeyError")
         ELSE Append1(acc, "price_changes",
                 [name |-> new_p.web_name,
                  old_price |-> Div10(old_p.now_cost),
                  new_price |-> Div10(new_p.now_cost),
                  change |-> Div10(new_p.now_cost - old_p.now_cost)])
    ELSE acc

OwnershipThreshold == 200

OwnershipStep(acc, old_p, new_p) ==
    IF acc.exc # NoExc THEN acc
    ELSE IF "selected_by_percent" \notin DOMAIN old_p
    THEN Raise(acc, "KeyError")
    ELSE
    Let(float(old_p.selected_by_percent), LAMBDA old_v :
    IF old_v.exc # NoExc THEN Raise(acc, old_v.exc)
    ELSE IF "selected_by_percent" \notin DOMAIN new_p
    THEN Raise(acc, "KeyError")
    ELSE
    Let(float(new_p.selected_by_percent), LAMBDA new_v :
    IF new_v.exc # NoExc THEN Raise(acc, new_v.exc)
    ELSE
    Let(FSub(new_v.f, old_v.f), LAMBDA change :
    IF FGt(abs(change), DoubleOf(OwnershipThreshold))
    THEN IF "web_name" \notin DOMAIN new_p THEN Raise(acc, "KeyError")
         ELSE Append1(acc, "ownership_changes",
                 [name |-> new_p.web_name,
                  old_ownership |-> old_v.f,
                  new_ownership |-> new_v.f,
                  change |-> change])
    ELSE acc)))

InjuryStep(acc, old_p, new_p) ==
    IF acc.exc # NoExc THEN acc
    ELSE IF "status" \notin DOMAIN old_p \/ "status" \notin DOMAIN new_p
    THEN Raise(acc, "KeyError")
    ELSE IF old_p.status # new_p.status
    THEN IF "web_name" \notin DOMAIN new_p THEN Raise(acc, "KeyError")
         ELSE Append1(acc, "injury_updates",
                 [name |-> new_p.web_name,
                  old_status |-> old_p.status,
                  new_status |-> new_p.status,
                  news |-> Get(new_p, "news", "")])
    ELSE acc

FormThreshold == 100

\* Faulty variant of FormStep: a missing form counts as 1.
FormStep_DefaultOne(acc, old_p, new_p) ==
    IF acc.exc # NoExc THEN acc
    ELSE
    Let(float(Get(old_p, "form", IntV(1))), LAMBDA old_v :
    IF old_v.exc # NoExc THEN acc
    ELSE
    Let(float(Get(new_p, "form", IntV(1))), LAMBDA new_v :
    IF new_v.exc # NoExc THEN acc
    ELSE
    Let(FSub(new_v.f, old_v.f), LAMBDA change :
    IF FGt(abs(change), DoubleOf(FormThreshold))
    THEN IF "web_name" \notin DOMAIN new_p THEN Raise(acc, "KeyError")
         ELSE Append1(acc, "form_changes",
                 [name |-> new_p.web_name,
                  old_form |-> old_v.f,
                  new_form |-> new_v.f,
                  change |-> change])
    ELSE acc)))

\* Faulty variant of FormStep: the except clause names ValueError only.
FormStep_ValueErrorOnly(acc, old_p, new_p) ==
    IF acc.exc # NoExc THEN acc
    ELSE
    Let(float(Get(old_p, "form", IntV(0))), LAMBDA old_v :
    IF old_v.exc = "ValueError" THEN acc
    ELSE IF old_v.exc # NoExc THEN Raise(acc, old_v.exc)
    ELSE
    Let(float(Get(new_p, "form", IntV(0))), LAMBDA new_v :
    IF new_v.exc = "ValueError" THEN acc
    ELSE IF new_v.exc # NoExc THEN Raise(acc, new_v.exc)
    ELSE
    Let(FSub(new_v.f, old_v.f), LAMBDA change :
    IF FGt(abs(change), DoubleOf(FormThreshold))
    THEN IF "web_name" \notin DOMAIN new_p THEN Raise(acc, "KeyError")
         ELSE Append1(acc, "form_changes",
                 [name |-> new_p.web_name,
                  old_form |-> old_v.f,
                  new_form |-> new_v.f,
                  change |-> change])
    ELSE acc)))

\* The try block: ValueError and TypeError are swallowed, a KeyError is not.
FormStep(acc, old_p, new_p) ==
    IF acc.exc # NoExc THEN acc
    ELSE
    Let(float(Get(old_p, "form", IntV(0))), LAMBDA old_v :
    IF old_v.exc # NoExc THEN acc
    ELSE
    Let(float(Get(new_p, "form", IntV(0))), LAMBDA new_v :
    IF new_v.exc # NoExc THEN acc
    ELSE
    Let(FSub(new_v.f, old_v.f), LAMBDA change :
    IF FGt(abs(change), DoubleOf(FormThreshold))
    THEN IF "web_name" \notin DOMAIN new_p THEN Raise(acc, "KeyError")
         ELSE Append1(acc, "form_changes",
                 [name |-> new_p.web_name,
                  old_form |-> old_v.f,
                  new_form |-> new_v.f,
                  change |-> change])
    ELSE acc)))

CommonPlayerStep(acc, old_p, new_p) ==
    FormStep(InjuryStep(OwnershipStep(PriceStep(acc, old_p, new_p),
                                      old_p, new_p),
                        old_p, new_p),
             old_p, new_p)

\* compare_players(old_data, new_data) under the set iteration order `order`:
\* [exc |-> the exception raised or NoExc, c |-> the comparison returned].
compare_players(old_data, new_data, order) ==
    Let(Get(old_data, "players", <<>>), LAMBDA old_list :
    Let(Get(new_data, "players", <<>>), LAMBDA new_list :
    Let([exc |-> NoExc, c |-> EmptyPlayerComparison], LAMBDA acc0 :
    IF ~HasIds(old_list) \/ ~HasIds(new_list) THEN Raise(acc0, "KeyError")
    ELSE
    Let(Index(old_list), LAMBDA old_players :
    Let(Index(new_list), LAMBDA new_players :
    Let(DOMAIN old_players, LAMBDA old_ids :
    Let(DOMAIN new_players, LAMBDA new_ids :
    LET StepNew(acc, pid)     == NewPlayerStep(acc, new_players[pid])
        StepRemoved(acc, pid) == RemovedPlayerStep(acc, old_players[pid])
        StepCommon(acc, pid)  ==
            CommonPlayerStep(acc, old_players[pid], new_players[pid])
    IN  ForEach(StepCommon,
                ForEach(StepRemoved,
                        ForEach(StepNew, acc0,
                                Iter(new_ids \ old_ids, order)),
                        Iter(old_ids \ new_ids, order)),
                Iter(old_ids \cap new_ids, order)))))))))

(***************************************************************************)
(* compare_fixtures                                                        *)
(***************************************************************************)
EmptyFixtureComparison == [new_results |-> <<>>, fixture_changes |-> <<>>]

\* Faulty variant of NewResultStep: the gameweek of the older record.
NewResultStep_OldGameweek(acc, old_f, new_f) ==
    IF acc.exc # NoExc THEN acc
    ELSE IF "finished" \notin DOMAIN old_f THEN Raise(acc, "KeyError")
    ELSE IF old_f.finished THEN acc
    ELSE IF "finished" \notin DOMAIN new_f THEN Raise(acc, "KeyError")
    ELSE IF ~new_f.finished THEN acc
    ELSE IF ~({"event", "team_h", "team_a", "team_h_score", "team_a_score"}
                \subseteq DOMAIN new_f) \/ "event" \notin DOMAIN old_f
    THEN Raise(acc, "KeyError")
    ELSE Append1(acc, "new_results",
            [gameweek |-> old_f.event,
             home_team |-> new_f.team_h,
             away_team |-> new_f.team_a,
             score |-> FmtValue(new_f.team_h_score) \o "-"
                         \o FmtValue(new_f.team_a_score)])

NewResultStep(acc, old_f, new_f) ==
    IF acc.exc # NoExc THEN acc
    ELSE IF "finished" \notin DOMAIN old_f THEN Raise(acc, "KeyError")
    ELSE IF old_f.finished THEN acc
    ELSE IF "finished" \notin DOMAIN new_f THEN Raise(acc, "KeyError")
    ELSE IF ~new_f.finished THEN acc
    ELSE IF ~({"event", "team_h", "team_a", "team_h_score", "team_a_score"}
                \subseteq DOMAIN new_f)
    THEN Raise(acc, "KeyError")
    ELSE Append1(acc, "new_results",
            [gameweek |-> new_f.event,
             home_team |-> new_f.team_h,
             away_team |-> new_f.team_a,
             score |-> FmtValue(new_f.team_h_score) \o "-"
                         \o FmtValue(new_f.team_a_score)])

NoneTime == "None"

\* Faulty variant of FixtureTimeStep: an elif after the new-result check.
FixtureTimeStep_Elif(acc, old_f, new_f) ==
    IF acc.exc # NoExc THEN acc
    ELSE IF ~Get(old_f, "finished", TRUE) /\ Get(new_f, "finished", FALSE)
    THEN acc
    ELSE IF Get(old_f, "kickoff_time", NoneTime)
              # Get(new_f, "kickoff_time", NoneTime)
    THEN IF ~({"event", "team_h", "team_a"} \subseteq DOMAIN new_f)
         THEN Raise(acc, "KeyError")
         ELSE Append1(acc, "fixture_changes",
                 [gameweek |-> new_f.event,
                  home_team |-> new_f.team_h,
                  away_team |-> new_f.team_a,
                  old_time |-> Get(old_f, "kickoff_time", NoneTime),
                  new_time |-> Get(new_f, "kickoff_time", NoneTime)])
    ELSE acc

FixtureTimeStep(acc, old_f, new_f) ==
    IF acc.exc # NoExc THEN acc
    ELSE IF Get(old_f, "kickoff_time", NoneTime)
              # Get(new_f, "kickoff_time", NoneTime)
    THEN IF ~({"event", "team_h", "team_a"} \subseteq DOMAIN new_f)
         THEN Raise(acc, "KeyError")
         ELSE Append1(acc, "fixture_changes",
                 [gameweek |-> new_f.event,
                  home_team |-> new_f.team_h,
                  away_team |-> new_f.team_a,
                  old_time |-> Get(old_f, "kickoff_time", NoneTime),
                  new_time |-> Get(new_f, "kickoff_time", NoneTime)])
    ELSE acc

compare_fixtures(old_data, new_data, order) ==
    Let(Get(old_data, "fixtures", <<>>), LAMBDA old_list :
    Let(Get(new_data, "fixtures", <<>>), LAMBDA new_list :
    Let([exc |-> NoExc, c |-> EmptyFixtureComparison], LAMBDA acc0 :
    IF ~HasIds(old_list) \/ ~HasIds(new_list) THEN Raise(acc0, "KeyError")
    ELSE
    Let(Index(old_list), LAMBDA old_fixtures :
    Let(Index(new_list), LAMBDA new_fixtures :
    LET StepFixture(acc, fid) ==
            FixtureTimeStep(
                NewResultStep(acc, old_fixtures[fid], new_fixtures[fid]),
                old_fixtures[fid], new_fixtures[fid])
    IN  ForEach(StepFixture, acc0,
                Iter(DOMAIN old_fixtures \cap DOMAIN new_fixtures,
                     order)))))))

(***************************************************************************)
(* generate_comparison_report: the rendering of the two comparisons.       *)
(* The report is the sequence of its lines; the program returns them       *)
(* joined by "\n".                                                         *)
(***************************************************************************)

\* "-" * 40 and "=" * 60
Rule40 == "----------------------------------------"
Rule60 == "============================================================"

MapSeq(F(_), seq) == [k \in DOMAIN seq |-> F(seq[k])]

\* Faulty variant of Take: one entry more than the limit.
Take_OneMore(seq, n) == SubSeq(seq, 1, Min(n + 1, Len(seq)))

\* seq[:n]
Take(seq, n) == SubSeq(seq, 1, Min(n, Len(seq)))

\* Faulty variant of Before: of two equal keys the later entry comes first.
Before_Unstable(entries, i, j) ==
    \/ FGt(abs(entries[i].change), abs(entries[j].change))
    \/ /\ ~FGt(abs(entries[j].change), abs(entries[i].change))
       /\ i > j

\* The order of sorted(..., key=lambda x: abs(x['change']), reverse=True), a
\* stable sort: entry i comes before entry j when its key is larger, or is
\* equal and i is before j in the list.
Before(entries, i, j) ==
    \/ FGt(abs(entries[i].change), abs(entries[j].change))
    \/ /\ ~FGt(abs(entries[j].change), abs(entries[i].change))
       /\ i < j

\* The place of entry j in the sorted list
PlaceByChange(entries, j) ==
    Cardinality({i \in DOMAIN entries : Before(entries, i, j)}) + 1

\* sorted(entries, key=lambda x: abs(x['change']), reverse=True)
SortedByChange(entries) ==
    Let([j \in DOMAIN entries |-> PlaceByChange(entries, j)], LAMBDA place :
        [k \in DOMAIN entries |->
            entries[CHOOSE j \in DOMAIN entries : place[j] = k]])

\* Faulty variant of SignOf: every delta gets a "+".
SignOf_AlwaysPlus(change) == "+"

\* sign = "+" if change > 0 else ""
SignOf(change) == IF FGt(change, DoubleOf(0)) THEN "+" ELSE ""

PriceCap == 20
OwnershipCap == 15
InjuryCap == 20
FormCap == 15

PriceLine(change) ==
    "  " \o change.name \o ": GBP" \o Fmt1(change.old_price) \o "m -> GBP"
         \o Fmt1(change.new_price) \o "m (" \o SignOf(change.change)
         \o Fmt1(change.change) \o ")"

PriceShown(player_changes) ==
    Take(SortedByChange(player_changes.price_changes), PriceCap)

PriceSection(player_changes) ==
    IF player_changes.price_changes = <<>> THEN <<>>
    ELSE <<"PRICE CHANGES:", Rule40>>
           \o MapSeq(PriceLine, PriceShown(player_changes)) \o <<"">>

OwnershipLine(change) ==
    "  " \o change.name \o ": " \o Fmt1(change.old_ownership) \o "% -> "
         \o Fmt1(change.new_ownership) \o "% (" \o SignOf(change.change)
         \o Fmt1(change.change) \o "%)"

OwnershipShown(player_changes) ==
    Take(SortedByChange(player_changes.ownership_changes), OwnershipCap)

OwnershipSection(player_changes) ==
    IF player_changes.ownership_changes = <<>> THEN <<>>
    ELSE <<"SIGNIFICANT OWNERSHIP CHANGES (>2%):", Rule40>>
           \o MapSeq(OwnershipLine, OwnershipShown(player_changes)) \o <<"">>

InjuryLines(update) ==
    <<"  " \o update.name \o ": " \o update.old_status \o " -> "
           \o update.new_status>>
      \o (IF update.news # "" THEN <<"    News: " \o update.news>> ELSE <<>>)

\* The lines of the updates one after the other (the first half of the
\* updates, then the second half)
RECURSIVE FlatMapInjury(_)
FlatMapInjury(updates) ==
    IF updates = <<>> THEN <<>>
    ELSE IF Len(updates) = 1 THEN InjuryLines(updates[1])
    ELSE FlatMapInjury(SubSeq(updates, 1, Len(updates) \div 2))
           \o FlatMapInjury(SubSeq(updates, Len(updates) \div 2 + 1,
                                   Len(updates)))

InjuryShown(player_changes) == Take(player_changes.injury_updates, InjuryCap)

InjurySection(player_changes) ==
    IF player_changes.injury_updates = <<>> THEN <<>>
    ELSE <<"INJURY STATUS UPDATES:", Rule40>>
           \o FlatMapInjury(InjuryShown(player_changes)) \o <<"">>

FormLine(change) ==
    "  " \o change.name \o ": " \o Fmt1(change.old_form) \o " -> "
         \o Fmt1(change.new_form) \o " (" \o SignOf(change.change)
         \o Fmt1(change.change) \o ")"

FormShown(player_changes) ==
    Take(SortedByChange(player_changes.form_changes), FormCap)

FormSection(player_changes) ==
    IF player_changes.form_changes = <<>> THEN <<>>
    ELSE <<"SIGNIFICANT FORM CHANGES:", Rule40>>
           \o MapSeq(FormLine, FormShown(player_changes)) \o <<"">>

NewPlayerLine(player) ==
    "  " \o player.name \o " - Team " \o IntStr(player.team) \o " - GBP"
         \o Fmt1(player.price) \o "m"

NewPlayersSection(player_changes) ==
    IF player_changes.new_players = <<>> THEN <<>>
    ELSE <<"NEW PLAYERS:", Rule40>>
           \o MapSeq(NewPlayerLine, player_changes.new_players) \o <<"">>

RemovedPlayerLine(player) ==
    "  " \o player.name \o " - Team " \o IntStr(player.team)

RemovedPlayersSection(player_changes) ==
    IF player_changes.removed_players = <<>> THEN <<>>
    ELSE <<"REMOVED PLAYERS:", Rule40>>
           \o MapSeq(RemovedPlayerLine, player_changes.removed_players)
           \o <<"">>

NewResultLine(result) ==
    "  GW" \o IntStr(result.gameweek) \o ": Team " \o IntStr(result.home_team)
           \o " vs Team " \o IntStr(result.away_team) \o " - Score: "
           \o result.score

NewResultsSection(fixture_changes) ==
    IF fixture_changes.new_results = <<>> THEN <<>>
    ELSE <<"NEW MATCH RESULTS:", Rule40>>
           \o MapSeq(NewResultLine, fixture_changes.new_results) \o <<"">>

Summary(player_changes, fixture_changes) ==
    <<"SUMMARY:", Rule40,
      "  Price changes: " \o NatStr(Len(player_changes.price_changes)),
      "  Ownership changes: "
          \o NatStr(Len(player_changes.ownership_changes)),
      "  Injury updates: " \o NatStr(Len(player_changes.injury_updates)),
      "  Form changes: " \o NatStr(Len(player_changes.form_changes)),
      "  New players: " \o NatStr(Len(player_changes.new_players)),
      "  Removed players: " \o NatStr(Len(player_changes.removed_players)),
      "  New results: " \o NatStr(Len(fixture_changes.new_results))>>

ReportHeader(d1, d2) ==
    <<Rule60, "FPL DATA COMPARISON REPORT",
      "Comparing: " \o d1 \o " -> " \o d2, Rule60, "">>

\* Faulty variant of RenderReport: the ownership section comes first.
RenderReport_OwnershipFirst(d1, d2, player_changes, fixture_changes) ==
    ReportHeader(d1, d2)
      \o OwnershipSection(player_changes)
      \o PriceSection(player_changes)
      \o InjurySection(player_changes)
      \o FormSection(player_changes)
      \o NewPlayersSection(player_changes)
      \o RemovedPlayersSection(player_changes)
      \o NewResultsSection(fixture_changes)
      \o Summary(player_changes, fixture_changes)

RenderReport(d1, d2, player_changes, fixture_changes) ==
    ReportHeader(d1, d2)
      \o PriceSection(player_changes)
      \o OwnershipSection(player_changes)
      \o InjurySection(player_changes)
      \o FormSection(player_changes)
      \o NewPlayersSection(player_changes)
      \o RemovedPlayersSection(player_changes)
      \o NewResultsSection(fixture_changes)
      \o Summary(player_changes, fixture_changes)

(***************************************************************************)
(* The snapshots the tool is run on.                                       *)
(***************************************************************************)
MaxPermuted == 3
MaxBulk == 30

PlayerName(i) == "Player" \o NatStr(i)

BasePlayer(i) ==
    [id |-> i, web_name |-> PlayerName(i), team |-> i, now_cost |-> 500,
     selected_by_percent |-> Num(240), status |-> "a", news |-> "",
     form |-> Num(120)]

Without(rec, key) == [k \in DOMAIN rec \ {key} |-> rec[k]]

NewsOf(status) == IF status = "a" THEN "" ELSE "Knock"

\* The records of the first player: every price and ownership, and every
\* status and form.
PlayerVariantsA(i) ==
    {[BasePlayer(i) EXCEPT !.now_cost = c, !.selected_by_percent = Num(o)] :
        c \in {500, 550}, o \in {240, 440, 441}}
    \cup {[BasePlayer(i) EXCEPT !.status = st, !.news = NewsOf(st),
                                !.form = Num(f)] :
            st \in {"a", "i"}, f \in {120, 220, 221}}
    \cup {Without(BasePlayer(i), "form")}

\* The records of the second player: one field changed at a time.
PlayerVariantsB(i) ==
    {BasePlayer(i),
     [BasePlayer(i) EXCEPT !.now_cost = 550],
     [BasePlayer(i) EXCEPT !.selected_by_percent = Num(441)],
     [BasePlayer(i) EXCEPT !.form = Num(221)],
     Without([BasePlayer(i) EXCEPT !.status = "i"], "news")}

\* The player lists of one snapshot: each player is in it or not.
PlayerLists ==
    {ra \o rb : ra \in {<<>>} \cup {<<r>> : r \in PlayerVariantsA(1)},
                rb \in {<<>>} \cup {<<r>> : r \in PlayerVariantsB(2)}}

KickoffA == "2024-08-16T19:00:00Z"
KickoffB == "2024-08-17T14:00:00Z"

BaseFixture(i) ==
    [id |-> i, event |-> 1, team_h |-> i, team_a |-> i + 1,
     finished |-> FALSE, team_h_score |-> Null, team_a_score |-> Null,
     kickoff_time |-> KickoffA]

Finished(fixture, h, a) ==
    [fixture EXCEPT !.finished = TRUE, !.team_h_score = IntV(h),
                    !.team_a_score = IntV(a)]

FixtureVariantsA(i) ==
    {[BaseFixture(i) EXCEPT !.kickoff_time = k] :
        k \in {KickoffA, KickoffB, NoneTime}}
    \cup {Without(BaseFixture(i), "kickoff_time")}
    \cup {Finished([BaseFixture(i) EXCEPT !.kickoff_time = k, !.event = gw],
                   2, 1) : k \in {KickoffA, KickoffB}, gw \in {1, 2}}
    \cup {Finished(BaseFixture(i), 0, 0)}

FixtureVariantsB(i) ==
    {BaseFixture(i),
     [BaseFixture(i) EXCEPT !.kickoff_time = KickoffB],
     Finished(BaseFixture(i), 1, 3)}

FixtureLists ==
    {ra \o rb : ra \in {<<>>} \cup {<<r>> : r \in FixtureVariantsA(1)},
                rb \in {<<>>} \cup {<<r>> : r \in FixtureVariantsB(2)}}

\* Large snapshots: players 1..n, each changed between the two snapshots
\* as the pattern says.  Under "all" every player changes in every field;
\* under "some" only some do.  The changes differ in size and in sign, and
\* several players share the size of a change.
Odd(i) == i % 2 = 1

BulkOld(i) ==
    [BasePlayer(i) EXCEPT !.selected_by_percent = Num(2000),
                          !.form = Num(400)]

BulkNew(i, pattern) ==
    IF pattern = "some" /\ i % 3 = 0 THEN BulkOld(i)
    ELSE [BulkOld(i) EXCEPT
            !.now_cost = IF Odd(i) THEN 500 + 5 * ((i % 4) + 1)
                         ELSE 500 - 5 * ((i % 4) + 1),
            !.selected_by_percent =
                IF pattern = "some" /\ Odd(i) THEN Num(2000)
                ELSE IF Odd(i) THEN Num(2000 - 201 - 50 * (i % 3))
                ELSE Num(2000 + 201 + 50 * (i % 3)),
            !.status = IF pattern = "some" /\ i % 4 = 1 THEN "a" ELSE "i",
            !.news = IF i % 4 = 2 THEN "Knock" ELSE "",
            !.form = IF Odd(i) THEN Num(400 + 101 + 100 * (i % 2))
                     ELSE Num(400 - 101 - 60 * (i % 3))]

BulkPlayersOld(n) == [i \in 1..n |-> BulkOld(i)]
BulkPlayersNew(n, pattern) == [i \in 1..n |-> BulkNew(i, pattern)]

Dataset(players, fixtures) == [players |-> players, fixtures |-> fixtures]

BaseData == Dataset(<<BasePlayer(1), BasePlayer(2)>>,
                    <<BaseFixture(1), BaseFixture(2)>>)

\* Snapshots with a record the comparison cannot read.
MalformedData ==
    {[BaseData EXCEPT !.players = <<r, BasePlayer(2)>>] :
        r \in {Without(BasePlayer(1), "status"),
               Without(BasePlayer(1), "id"),
               Without([BasePlayer(1) EXCEPT !.now_cost = 550], "web_name"),
               [BasePlayer(1) EXCEPT !.selected_by_percent = Text],
               [BasePlayer(1) EXCEPT !.selected_by_percent = Null],
               [BasePlayer(1) EXCEPT !.form = Text],
               [BasePlayer(1) EXCEPT !.form = Null]}}
    \cup {[BaseData EXCEPT !.fixtures = <<r>>] :
            r \in {Without(BaseFixture(1), "finished"),
                   Without(BaseFixture(1), "id"),
                   Without(Finished(BaseFixture(1), 2, 1), "event")}}

\* A snapshot file of a date folder: readable JSON, or a file load_data
\* cannot read.
File(json) == [readable |-> TRUE, json |-> json]
Unreadable == [readable |-> FALSE, json |-> EmptyDict]

DateA == "2024-08-16"
DateB == "2024-08-23"
DateC == "2024-08-30"

Store(old, new) == (DateA :> File(old)) @@ (DateB :> File(new))

\* Stores with a date folder missing, an unreadable file, an empty JSON
\* object or a snapshot without a player list.
OddFiles ==
    {File(BaseData), Unreadable, File(EmptyDict),
     File([fixtures |-> <<BaseFixture(1)>>])}

OddStores ==
    UNION {[dates -> OddFiles] : dates \in SUBSET {DateA, DateB}}

\* A record with its price, ownership and status changed
Changed(p) ==
    [p EXCEPT !.now_cost = 550, !.selected_by_percent = Num(441),
              !.status = "i", !.news = "Knock"]

RequiredFields ==
    {"id", "web_name", "now_cost", "selected_by_percent", "status"}

\* The form values of a record: numbers on both sides of 1.0, a string that
\* is no number, and null
FormValues ==
    {Num(-150), Num(50), Num(100), Num(101), Num(120), Num(230), Text, Null}

\* Records of one player, unchanged or changed: with every form value and
\* without form, without one of the fields the comparison reads, and with
\* an ownership that is no number.
RecordVariants(i) ==
    LET both == {BasePlayer(i), Changed(BasePlayer(i))}
    IN  {[q EXCEPT !.form = f] : q \in both, f \in FormValues}
        \cup {Without(q, "form") : q \in both}
        \cup {Without(q, k) : q \in both, k \in RequiredFields}
        \cup {[q EXCEPT !.selected_by_percent = v] :
                 q \in both, v \in {Text, Null}}

\* The snapshots a client of the comparator holds: players 1 and 2, the
\* same with changes, players 2 (without form) and 3, and one with records
\* the comparison cannot read.
CallData ==
    {BaseData,
     Dataset(<<Changed(BasePlayer(1)),
               [BasePlayer(2) EXCEPT !.form = Num(230)]>>,
             <<Finished([BaseFixture(1) EXCEPT !.kickoff_time = KickoffB],
                        2, 1),
               BaseFixture(2)>>),
     Dataset(<<Without(BasePlayer(2), "form"), BasePlayer(3)>>,
             <<BaseFixture(2), BaseFixture(3)>>),
     Dataset(<<Without(BasePlayer(1), "status"), BasePlayer(2)>>,
             <<Without(BaseFixture(1), "finished")>>)}

MaxCalls == 3

(***************************************************************************)
(* The state: the data directory, the two dates asked for, and the locals  *)
(* of generate_comparison_report as it runs.                               *)
(***************************************************************************)
VARIABLES files, date1, date2, pc, old_data, new_data, player_changes,
          fixture_changes, report

\* A client that calls compare_players and compare_fixtures itself: the
\* calls it has made, and the order in which this run of the interpreter
\* visits the ids of each call.
VARIABLES calls, visit

\* The collector (src/fpl_data_collector.py): its fields self.data and
\* top_players, the server it talks to, the position of collect_all_data
\* (phase), its local variables (frame) and what it returned (result), the
\* _api_call it is in (api), and the requests, waits, calls and returns so
\* far (log).
VARIABLES self_data, top_players, net, phase, frame, result, api, log

collector == <<self_data, top_players, net, phase, frame, result, api, log>>

\* save_data: its position (save_pc), its parameters data and output_dir
\* (data_arg: the data passed or Null for None), the clock it reads, its
\* local variables validation and files_saved, and the files under
\* output_dir, each by its path.
VARIABLES save_pc, data_arg, output_dir, clock, validation, files_saved, disk

saver == <<save_pc, data_arg, output_dir, clock, validation, files_saved,
           disk>>

vars == <<files, date1, date2, pc, old_data, new_data, player_changes,
          fixture_changes, report, calls, visit, self_data, top_players, net,
          phase, frame, result, api, log, save_pc, data_arg, output_dir,
          clock, validation, files_saved, disk>>

comparator == <<files, date1, date2, pc, old_data, new_data, player_changes,
                fixture_changes, report, calls, visit>>

\* What generate_comparison_report has no part in
others == <<calls, visit, collector, saver>>

\* What validate_data starts from (lines 203-207)
NoValidation == [is_valid |-> TRUE, warnings |-> <<>>, errors |-> <<>>]

\* save_data called with no data (data=None)
NoArgument == [passed |-> FALSE, value |-> EmptyDict]

\* save_data is not called
SaverIdle ==
    /\ save_pc = "idle"
    /\ data_arg = NoArgument
    /\ output_dir = "data"
    /\ clock = [date |-> "", time |-> ""]
    /\ validation = NoValidation
    /\ files_saved = EmptyDict
    /\ disk = EmptyDict

\* No _api_call is running
NoCall == [url |-> "", attempt |-> 0, at |-> "idle"]

\* collect_all_data has not returned
NotReturned == [returned |-> FALSE, value |-> EmptyDict]

NoFrame == [current_gw |-> 0, sorted_players |-> <<>>, i |-> 0,
            successful_histories |-> 0, failed_histories |-> <<>>]

\* A collector nobody uses
CollectorIdle ==
    /\ self_data = EmptyDict
    /\ top_players = 0
    /\ net = EmptyDict
    /\ phase = "idle"
    /\ frame = NoFrame
    /\ result = NotReturned
    /\ api = NoCall
    /\ log = <<>>
    /\ SaverIdle

Locals ==
    /\ pc = "start"
    /\ old_data = EmptyDict
    /\ new_data = EmptyDict
    /\ player_changes = EmptyPlayerComparison
    /\ fixture_changes = EmptyFixtureComparison
    /\ report = <<>>
    /\ calls = <<>>
    /\ visit = <<>>
    /\ CollectorIdle

Init ==
    /\ Locals
    /\ \/ /\ date1 = DateA
          /\ date2 = DateB
          /\ \/ \E op \in PlayerLists, np \in PlayerLists :
                   files = Store(Dataset(op, BaseData.fixtures),
                                 Dataset(np, BaseData.fixtures))
             \/ \E of \in FixtureLists, nf \in FixtureLists :
                   files = Store(Dataset(BaseData.players, of),
                                 Dataset(BaseData.players, nf))
             \/ \E m \in MalformedData :
                   \/ files = Store(m, BaseData)
                   \/ files = Store(BaseData, m)
                   \/ files = Store(m, m)
       \/ /\ date1 \in {DateA, DateB, DateC}
          /\ date2 \in {DateA, DateB, DateC}
          /\ files \in OddStores

\* Two large snapshots, compared in either direction.
InitBulk ==
    /\ Locals
    /\ \E d \in {<<DateA, DateB>>, <<DateB, DateA>>} :
          date1 = d[1] /\ date2 = d[2]
    /\ \E n \in 0..MaxBulk, pattern \in {"all", "some"},
          nf \in {BaseData.fixtures,
                  <<Finished(BaseFixture(1), 2, 1), BaseFixture(2)>>} :
          \/ files = Store(Dataset(BulkPlayersOld(n), BaseData.fixtures),
                           Dataset(BulkPlayersNew(n, pattern), nf))
          \/ /\ n = 0
             /\ files = Store(EmptyDict, Dataset(<<>>, nf))

\* Two snapshots of two players: the first with any of its records in
\* either snapshot, the second well formed, changed or not.
InitRecords ==
    /\ Locals
    /\ date1 = DateA
    /\ date2 = DateB
    /\ \E old_p \in RecordVariants(1), new_p \in RecordVariants(1),
          new_q \in {BasePlayer(2), Changed(BasePlayer(2))} :
          files = Store(Dataset(<<old_p, BasePlayer(2)>>, BaseData.fixtures),
                        Dataset(<<new_p, new_q>>, BaseData.fixtures))

(***************************************************************************)
(* Set iteration orders.  A set of up to MaxPermuted ids is visited in any *)
(* order; a larger one in ascending or in descending order.                *)
(***************************************************************************)
Ascending(S) ==
    [k \in 1..Cardinality(S) |->
        CHOOSE x \in S : Cardinality({y \in S : y < x}) = k - 1]

Reverse(seq) == [k \in DOMAIN seq |-> seq[Len(seq) + 1 - k]]

Orders(S) ==
    IF Cardinality(S) <= MaxPermuted
    THEN {o \in [1..Cardinality(S) -> S] :
             \A j, k \in 1..Cardinality(S) : o[j] = o[k] => j = k}
    ELSE {Ascending(S), Reverse(Ascending(S))}

IdsOf(records) ==
    {records[k].id : k \in {j \in DOMAIN records : "id" \in DOMAIN records[j]}}

PlayerIds ==
    IdsOf(Get(old_data, "players", <<>>))
      \cup IdsOf(Get(new_data, "players", <<>>))

FixtureIds ==
    IdsOf(Get(old_data, "fixtures", <<>>))
      \cup IdsOf(Get(new_data, "fixtures", <<>>))

(***************************************************************************)
(* generate_comparison_report(date1, date2), step by step.                 *)
(***************************************************************************)
\* find_data_files: the latest snapshot file of every date folder
find_data_files == files

\* load_data: the JSON of the file, or {} when reading it fails
load_data(file) == IF file.readable THEN file.json ELSE EmptyDict

FindFiles ==
    /\ pc = "start"
    /\ IF date1 \in DOMAIN find_data_files /\ date2 \in DOMAIN find_data_files
       THEN /\ pc' = "found"
            /\ UNCHANGED report
       ELSE /\ pc' = "done"
            /\ report' = <<"[ERROR] Could not find data for both dates: "
                             \o date1 \o ", " \o date2>>
    /\ UNCHANGED <<files, date1, date2, old_data, new_data, player_changes,
                   fixture_changes>>
    /\ UNCHANGED others

LoadFiles ==
    /\ pc = "found"
    /\ LET old == load_data(files[date1])
           new == load_data(files[date2])
       IN  IF DOMAIN old = {} \/ DOMAIN new = {}
           THEN /\ pc' = "done"
                /\ report' = <<"[ERROR] Failed to load data files">>
                /\ UNCHANGED <<old_data, new_data>>
           ELSE /\ pc' = "loaded"
                /\ old_data' = old
                /\ new_data' = new
                /\ UNCHANGED report
    /\ UNCHANGED <<files, date1, date2, player_changes, fixture_changes>>
    /\ UNCHANGED others

ComparePlayers ==
    /\ pc = "loaded"
    /\ \E order \in Orders(PlayerIds) :
          LET res == compare_players(old_data, new_data, order)
          IN  IF res.exc = NoExc
              THEN /\ pc' = "players"
                   /\ player_changes' = res.c
              ELSE /\ pc' = "raised"
                   /\ UNCHANGED player_changes
    /\ UNCHANGED <<files, date1, date2, old_data, new_data, fixture_changes,
                   report>>
    /\ UNCHANGED others

CompareFixtures ==
    /\ pc = "players"
    /\ \E order \in Orders(FixtureIds) :
          LET res == compare_fixtures(old_data, new_data, order)
          IN  IF res.exc = NoExc
              THEN /\ pc' = "fixtures"
                   /\ fixture_changes' = res.c
              ELSE /\ pc' = "raised"
                   /\ UNCHANGED fixture_changes
    /\ UNCHANGED <<files, date1, date2, old_data, new_data, player_changes,
                   report>>
    /\ UNCHANGED others

Render ==
    /\ pc = "fixtures"
    /\ report' = RenderReport(date1, date2, player_changes, fixture_changes)
    /\ pc' = "done"
    /\ UNCHANGED <<files, date1, date2, old_data, new_data, player_changes,
                   fixture_changes>>
    /\ UNCHANGED others

Next == FindFiles \/ LoadFiles \/ ComparePlayers \/ CompareFixtures \/ Render

Spec == Init /\ [][Next]_vars

SpecBulk == InitBulk /\ [][Next]_vars

SpecRecords == InitRecords /\ [][Next]_vars

(***************************************************************************)
(* Snapshots in which several records carry the same id: up to             *)
(* MaxDuplicates records in the older one, one or two in the newer one.    *)
(***************************************************************************)
MaxDuplicates == 3

\* Another record of the same player, changed in every field and in name
Relisted(p) == [Changed(p) EXCEPT !.web_name = "Other"]

\* Another record of the same fixture: played in another gameweek, at
\* another time
Replayed(f) ==
    Finished([f EXCEPT !.event = 2, !.kickoff_time = KickoffB], 2, 1)

\* The lists of one to max records
ListsOver(records, max) == UNION {[1..n -> records] : n \in 1..max}

DuplicatePlayerLists(max) ==
    ListsOver({BasePlayer(1), Relisted(BasePlayer(1)), BasePlayer(2)}, max)

DuplicateFixtureLists(max) ==
    ListsOver({BaseFixture(1), Replayed(BaseFixture(1)), BaseFixture(2)}, max)

InitDuplicates ==
    /\ Locals
    /\ date1 = DateA
    /\ date2 = DateB
    /\ \/ \E op \in DuplicatePlayerLists(MaxDuplicates),
             np \in DuplicatePlayerLists(2) :
             files = Store(Dataset(op, BaseData.fixtures),
                           Dataset(np, BaseData.fixtures))
       \/ \E of \in DuplicateFixtureLists(MaxDuplicates),
             nf \in DuplicateFixtureLists(2) :
             files = Store(Dataset(BaseData.players, of),
                           Dataset(BaseData.players, nf))

SpecDuplicates == InitDuplicates /\ [][Next]_vars

(***************************************************************************)
(* compare_players and compare_fixtures called by a client, on the two     *)
(* snapshots it holds, in either direction and any number of times.        *)
(***************************************************************************)
Permutations3 ==
    {o \in [1..3 -> 1..3] : \A j, k \in 1..3 : o[j] = o[k] => j = k}

InitCalls ==
    /\ files = EmptyDict
    /\ date1 = DateA
    /\ date2 = DateB
    /\ pc = "client"
    /\ old_data \in CallData
    /\ new_data \in CallData
    /\ player_changes = EmptyPlayerComparison
    /\ fixture_changes = EmptyFixtureComparison
    /\ report = <<>>
    /\ calls = <<>>
    /\ visit \in [{"forward", "backward"} -> Permutations3]
    /\ CollectorIdle

\* The same two arguments are visited in the same order every time
DirectionOf(old, new) ==
    IF <<old, new>> = <<old_data, new_data>> THEN "forward" ELSE "backward"

\* Faulty variant of ArgumentsAfter: the call stores the form it assumed.
ArgumentsAfter_FillsForm(old, new) ==
    LET Filled(data) ==
            [data EXCEPT !.players =
                [k \in DOMAIN data.players |->
                    [f \in DOMAIN data.players[k] \cup {"form"} |->
                        IF f \in DOMAIN data.players[k]
                        THEN data.players[k][f] ELSE IntV(0)]]]
    IN  <<Filled(old), Filled(new)>>

\* The two arguments of compare_players or compare_fixtures when the call
\* has returned or raised: the methods read them and assign to nothing in
\* them, nor to any attribute of self.
ArgumentsAfter(old, new) == <<old, new>>

\* What a call gives its caller: the comparison, or the exception alone
Outcome(res) ==
    IF res.exc = NoExc THEN res ELSE [exc |-> res.exc, c |-> EmptyDict]

Call(method, old, new, res) ==
    /\ UNCHANGED <<files, date1, date2, pc, player_changes, fixture_changes,
                   report, visit, collector, saver>>
    /\ IF DirectionOf(old, new) = "forward"
       THEN /\ old_data' = ArgumentsAfter(old, new)[1]
            /\ new_data' = ArgumentsAfter(old, new)[2]
       ELSE /\ new_data' = ArgumentsAfter(old, new)[1]
            /\ old_data' = ArgumentsAfter(old, new)[2]
    /\ calls' = Append(calls,
                       [method |-> method, old |-> old, new |-> new,
                        result |-> Outcome(res),
                        old_after |-> ArgumentsAfter(old, new)[1],
                        new_after |-> ArgumentsAfter(old, new)[2],
                        self_before |-> files, self_after |-> files'])

CallComparePlayers ==
    /\ pc = "client"
    /\ Len(calls) < MaxCalls
    /\ \E args \in {<<old_data, new_data>>, <<new_data, old_data>>} :
          Call("compare_players", args[1], args[2],
               compare_players(args[1], args[2],
                               visit[DirectionOf(args[1], args[2])]))

CallCompareFixtures ==
    /\ pc = "client"
    /\ Len(calls) < MaxCalls
    /\ \E args \in {<<old_data, new_data>>, <<new_data, old_data>>} :
          Call("compare_fixtures", args[1], args[2],
               compare_fixtures(args[1], args[2],
                                visit[DirectionOf(args[1], args[2])]))

NextCalls == CallComparePlayers \/ CallCompareFixtures

SpecCalls == InitCalls /\ [][NextCalls]_vars

(***************************************************************************)
(* The collector (src/fpl_data_collector.py): _api_call and                *)
(* collect_all_data.  What the program prints is not part of the model.    *)
(***************************************************************************)
BASE_URL == "https://fantasy.premierleague.com/api"
MAX_RETRIES == 3
RETRY_DELAY == 2

BootstrapUrl == BASE_URL \o "/bootstrap-static/"
FixturesUrl == BASE_URL \o "/fixtures/"
LiveUrl(gw) == BASE_URL \o "/event/" \o NatStr(gw) \o "/live/"
SummaryUrl(id) == BASE_URL \o "/element-summary/" \o NatStr(id) \o "/"

\* What response.json() gives, and so what _api_call returns: a JSON object,
\* a JSON array, or None (Null)
Dict(d) == [kind |-> "dict", val |-> d]
List(l) == [kind |-> "list", val |-> l]

\* bool(v) of such a value
Truthy(v) ==
    CASE v.kind = "null" -> FALSE
      [] v.kind = "dict" -> DOMAIN v.val # {}
      [] v.kind = "list" -> Len(v.val) > 0

\* Body(v), with v evaluated once wherever the formula is evaluated
Once(v, Body(_)) == CHOOSE r \in {Body(x) : x \in {v}} : TRUE

\* dict[key] = val
Put(dict, key, val) ==
    Once(dict, LAMBDA d : Once(val, LAMBDA v :
        [k \in DOMAIN d \cup {key} |-> IF k = key THEN v ELSE d[k]]))

\* The first gameweek that is current or next, or 1 (lines 84-93)
CurrentGameweek(gameweeks) ==
    Once({k \in DOMAIN gameweeks :
            \/ Get(gameweeks[k], "is_current", FALSE)
            \/ Get(gameweeks[k], "is_next", FALSE)}, LAMBDA hits :
        IF hits = {} THEN 1
        ELSE Once(gameweeks[CHOOSE k \in hits : \A j \in hits : k <= j].id,
                 LAMBDA gw : IF gw = 0 THEN 1 ELSE gw))

\* Lines 67-73
StoreBootstrap(dict, bootstrap) ==
    Put(Put(Put(Put(Put(Put(Put(dict,
        "players", bootstrap.elements),
        "teams", bootstrap.teams),
        "gameweeks", bootstrap.events),
        "positions", bootstrap.element_types),
        "game_settings", Get(bootstrap, "game_settings", EmptyDict)),
        "phases", Get(bootstrap, "phases", <<>>)),
        "chips", Get(bootstrap, "chips", <<>>))

\* sorted(players, key=lambda x: float(x['selected_by_percent']),
\* reverse=True): by ownership, the larger first, players of equal
\* ownership in the order of the list
OwnershipKey(p) == float(p.selected_by_percent).f

\* The key of every player of the list, by its place in the list
OwnershipKeys(players) ==
    {<<k, OwnershipKey(players[k])>> : k \in DOMAIN players}

KeyAt(keys, k) == (CHOOSE pair \in keys : pair[1] = k)[2]

RankByOwnership(keys, j) ==
    1 + Cardinality({pair \in keys :
            \/ FGt(pair[2], KeyAt(keys, j))
            \/ pair[2] = KeyAt(keys, j) /\ pair[1] < j})

SortedByOwnership(players) ==
    Once(OwnershipKeys(players), LAMBDA keys :
        [r \in DOMAIN players |->
            players[CHOOSE j \in DOMAIN players :
                       RankByOwnership(keys, j) = r]])

\* Faulty variant of CountHistory: a fetched history is not counted.
CountHistory_Forgets(n) == n

\* successful_histories += 1
CountHistory(n) == n + 1

\* f['team_h_score'] or 0
Score(v) == IF v.kind = "null" THEN 0 ELSE v.val

RECURSIVE SumScores(_, _)
SumScores(games, key) ==
    IF games = <<>> THEN 0
    ELSE Score(Head(games)[key]) + SumScores(Tail(games), key)

\* Lines 154-173
TeamStats(dict) ==
    [t \in {dict.teams[k].id : k \in DOMAIN dict.teams} |->
        Once(SelectSeq(dict.fixtures,
                      LAMBDA f : f.team_h = t /\ f.finished),
            LAMBDA home_games :
        Once(SelectSeq(dict.fixtures,
                      LAMBDA f : f.team_a = t /\ f.finished),
            LAMBDA away_games :
            [name |-> Index(dict.teams)[t].name,
             short_name |-> Index(dict.teams)[t].short_name,
             games_played |-> Len(home_games) + Len(away_games),
             home_games |-> Len(home_games),
             away_games |-> Len(away_games),
             total_goals_scored |->
                 SumScores(home_games, "team_h_score")
                     + SumScores(away_games, "team_a_score"),
             total_goals_conceded |->
                 SumScores(home_games, "team_a_score")
                     + SumScores(away_games, "team_h_score")]))]

\* Lines 179-186
NextFiveGameweeks(dict, current_gw) ==
    [k \in 1..(Min(current_gw + 5, 39) - current_gw) |->
        [gameweek |-> current_gw + k - 1,
         fixtures |-> SelectSeq(dict.fixtures,
                                LAMBDA f : f.event = current_gw + k - 1)]]

\* Lines 191-197
Metadata(dict, f, now) ==
    [collection_time |-> now,
     player_count |-> Len(dict.players),
     fixture_count |-> Len(dict.fixtures),
     histories_collected |-> f.successful_histories,
     current_gameweek |-> f.current_gw]

\* What collect_all_data does between two calls of _api_call, or between
\* the last one and its return: the collector's data, the local variables,
\* the position, the returned value, and the URL of the next call ("" when
\* it returns).
Goes(dict, f, at, url) ==
    [self_data |-> dict, frame |-> f, phase |-> at, result |-> NotReturned,
     call |-> url]

Returns(dict, f, value) ==
    [self_data |-> dict, frame |-> f, phase |-> "returned",
     result |-> [returned |-> TRUE, value |-> value], call |-> ""]

\* Lines 152-199
Finish(dict, f, now) ==
    Once(Put(dict, "team_stats", TeamStats(dict)), LAMBDA d1 :
    Once(Put(d1, "next_5_gameweeks", NextFiveGameweeks(d1, f.current_gw)),
        LAMBDA d2 :
    Once(Put(d2, "metadata", Metadata(d2, f, now)), LAMBDA d3 :
        Returns(d3, f, d3))))

\* Lines 63-100
AfterBootstrap(dict, f, bootstrap) ==
    IF ~Truthy(bootstrap) THEN Returns(dict, f, EmptyDict)
    ELSE Goes(StoreBootstrap(dict, bootstrap.val),
              [f EXCEPT !.current_gw = CurrentGameweek(bootstrap.val.events)],
              "fixtures", FixturesUrl)

\* Lines 102-114
AfterFixtures(dict, f, fixtures_data) ==
    Goes(Put(dict, "fixtures",
             IF Truthy(fixtures_data) THEN fixtures_data.val ELSE <<>>),
         f, "live", LiveUrl(f.current_gw))

\* Lines 116-140, and 148-199 when no history is to be fetched
AfterLive(dict, f, top, live_data, now) ==
    Once(Put(Put(dict, "live_gameweek",
                IF Truthy(live_data) THEN live_data.val ELSE EmptyDict),
            "player_histories", EmptyDict), LAMBDA d1 :
    Once(Take(SortedByOwnership(d1.players), top), LAMBDA sorted_players :
    Once([f EXCEPT !.sorted_players = sorted_players, !.i = 1,
                  !.successful_histories = 0, !.failed_histories = <<>>],
        LAMBDA f1 :
        IF sorted_players = <<>> THEN Finish(d1, f1, now)
        ELSE Goes(d1, f1, "histories", SummaryUrl(sorted_players[1].id)))))

\* Lines 142-146, then the next player's call or lines 148-199
AfterHistory(dict, f, player_data, now) ==
    Once(f.sorted_players[f.i], LAMBDA player :
    Once(IF Truthy(player_data)
        THEN [dict EXCEPT !.player_histories =
                              Put(@, player.id, player_data.val)]
        ELSE dict, LAMBDA d1 :
    Once(IF Truthy(player_data)
        THEN [f EXCEPT !.successful_histories = CountHistory(@)]
        ELSE [f EXCEPT !.failed_histories = Append(@, player.web_name)],
        LAMBDA f1 :
        IF f.i < Len(f.sorted_players)
        THEN Goes(d1, [f1 EXCEPT !.i = @ + 1], "histories",
                  SummaryUrl(f.sorted_players[f.i + 1].id))
        ELSE Finish(d1, f1, now))))

AfterCall(at, dict, f, top, value, now) ==
    CASE at = "bootstrap" -> AfterBootstrap(dict, f, value)
      [] at = "fixtures"  -> AfterFixtures(dict, f, value)
      [] at = "live"      -> AfterLive(dict, f, top, value, now)
      [] at = "histories" -> AfterHistory(dict, f, value, now)

\* The servers: what each URL answers when a request succeeds.
MaxTopPlayers == 2

Team(i) == [id |-> i, name |-> "Team" \o NatStr(i),
            short_name |-> "T" \o NatStr(i)]

Owned(p, hundredths) == [p EXCEPT !.selected_by_percent = Num(hundredths)]

BootstrapA ==
    Dict([elements |-> <<BasePlayer(1), Owned(BasePlayer(2), 441),
                         Owned(BasePlayer(3), 441)>>,
          teams |-> <<Team(1), Team(2)>>,
          events |-> <<[id |-> 1], [id |-> 2, is_next |-> TRUE],
                       [id |-> 3, is_current |-> TRUE]>>,
          element_types |-> <<[id |-> 1]>>,
          game_settings |-> [squad_squadsize |-> 15],
          phases |-> <<[id |-> 1]>>,
          chips |-> <<[id |-> 1]>>])

BootstrapB ==
    Dict([elements |-> <<BasePlayer(1), BasePlayer(2)>>,
          teams |-> <<Team(1)>>,
          events |-> <<[id |-> 1, is_current |-> FALSE]>>,
          element_types |-> <<>>])

FixturesBody == List(<<Finished(BaseFixture(1), 2, 1), BaseFixture(2)>>)
LiveBody == Dict([elements |-> <<>>])
HistoryBody(i) == Dict([history |-> <<[element |-> i]>>])

Urls ==
    {BootstrapUrl, FixturesUrl} \cup {LiveUrl(gw) : gw \in 1..3}
        \cup {SummaryUrl(i) : i \in 1..3}

\* A server: its bootstrap, fixtures and live bodies, and the players whose
\* history it answers with an empty object
Server(bootstrap, fixtures, live, blank) ==
    [url \in Urls |->
        CASE url = BootstrapUrl -> bootstrap
          [] url = FixturesUrl -> fixtures
          [] url \in {LiveUrl(gw) : gw \in 1..3} -> live
          [] OTHER -> Once(CHOOSE i \in 1..3 : url = SummaryUrl(i), LAMBDA i :
                          IF i \in blank THEN Dict(EmptyDict)
                          ELSE HistoryBody(i))]

Servers ==
    {Server(BootstrapA, FixturesBody, LiveBody, {}),
     Server(BootstrapA, List(<<>>), Dict(EmptyDict), {3}),
     Server(BootstrapB, FixturesBody, LiveBody, {}),
     Server(Dict(EmptyDict), FixturesBody, LiveBody, {})}

\* datetime.now().isoformat()
Clock == {"2024-08-16T12:00:00", "2024-08-16T12:00:07"}

InitCollector ==
    /\ files = EmptyDict
    /\ date1 = DateA
    /\ date2 = DateB
    /\ pc = "collector"
    /\ old_data = EmptyDict
    /\ new_data = EmptyDict
    /\ player_changes = EmptyPlayerComparison
    /\ fixture_changes = EmptyFixtureComparison
    /\ report = <<>>
    /\ calls = <<>>
    /\ visit = <<>>
    /\ self_data = EmptyDict
    /\ top_players \in 0..MaxTopPlayers
    /\ net \in Servers
    /\ phase = "start"
    /\ frame = NoFrame
    /\ result = NotReturned
    /\ api = NoCall
    /\ log = <<>>
    /\ SaverIdle

\* What happens, in order: a call of _api_call, a request and whether it
\* succeeded, a wait, the return of _api_call and its value
Event(kind, url, ok, value) ==
    [kind |-> kind, url |-> url, ok |-> ok, value |-> value]

CallEvent(url) == Event("call", url, FALSE, Null)
RequestEvent(url, ok) == Event("request", url, ok, Null)
WaitEvent(url) == Event("wait", url, FALSE, IntV(RETRY_DELAY))
ReturnEvent(url, value) == Event("return", url, FALSE, value)

\* _api_call(url, description) is entered: attempt 0 of range(MAX_RETRIES)
NewCall(url) == [url |-> url, attempt |-> 0, at |-> "get"]

\* Faulty variant of IsLastAttempt: no attempt is taken for the last one.
IsLastAttempt_Never(attempt) == FALSE

\* attempt == self.MAX_RETRIES - 1
IsLastAttempt(attempt) == attempt = MAX_RETRIES - 1

\* _api_call returns value, and collect_all_data goes on to its next call
\* of _api_call or to its return
Resume(events, value, now) ==
    \E next \in {AfterCall(phase, self_data, frame, top_players, value, now)} :
        /\ self_data' = next.self_data
        /\ frame' = next.frame
        /\ phase' = next.phase
        /\ result' = next.result
        /\ api' = IF next.call = "" THEN NoCall ELSE NewCall(next.call)
        /\ log' = log \o events \o <<ReturnEvent(api.url, value)>>
                      \o (IF next.call = "" THEN <<>>
                          ELSE <<CallEvent(next.call)>>)

\* collect_all_data is called: lines 54-61
CollectAllData ==
    /\ phase = "start"
    /\ phase' = "bootstrap"
    /\ api' = NewCall(BootstrapUrl)
    /\ log' = Append(log, CallEvent(BootstrapUrl))
    /\ UNCHANGED <<self_data, top_players, net, frame, result>>
    /\ UNCHANGED comparator
    /\ UNCHANGED saver

\* One attempt of _api_call, lines 35-46: the request succeeds and the call
\* returns the body, or it fails and the call returns None (last attempt) or
\* is about to sleep
Request ==
    /\ api.at = "get"
    /\ \E ok \in BOOLEAN, now \in Clock :
          IF ok THEN Resume(<<RequestEvent(api.url, TRUE)>>, net[api.url], now)
          ELSE IF IsLastAttempt(api.attempt)
          THEN Resume(<<RequestEvent(api.url, FALSE)>>, Null, now)
          ELSE /\ api' = [api EXCEPT !.at = "sleep"]
               /\ log' = Append(log, RequestEvent(api.url, FALSE))
               /\ UNCHANGED <<self_data, frame, phase, result>>
    /\ UNCHANGED <<top_players, net>>
    /\ UNCHANGED comparator
    /\ UNCHANGED saver

\* time.sleep(RETRY_DELAY), line 47, and the next turn of the loop; line 49
\* when the loop is over
Sleep ==
    /\ api.at = "sleep"
    /\ \E now \in Clock :
          IF api.attempt + 1 < MAX_RETRIES
          THEN /\ api' = [api EXCEPT !.attempt = @ + 1, !.at = "get"]
               /\ log' = Append(log, WaitEvent(api.url))
               /\ UNCHANGED <<self_data, frame, phase, result>>
          ELSE Resume(<<WaitEvent(api.url)>>, Null, now)
    /\ UNCHANGED <<top_players, net>>
    /\ UNCHANGED comparator
    /\ UNCHANGED saver

NextCollector == CollectAllData \/ Request \/ Sleep

\* A request ends, in a response or in an exception (timeout=30), and a
\* sleep ends: the collector keeps going while it has a step to take.
SpecCollector ==
    InitCollector /\ [][NextCollector]_vars /\ WF_vars(NextCollector)

(***************************************************************************)
(* The collector's validate_data and save_data.  Of a file only its path   *)
(* and how far it was written are kept, not its content.                   *)
(***************************************************************************)
MinPlayers == 600
MinFixtures == 380
TeamCount == 20

\* expected_fields, line 225
ExpectedFields == <<"id", "web_name", "team", "now_cost", "total_points">>

\* f"{missing_fields}": the repr of a list of strings
RECURSIVE JoinQuoted(_)
JoinQuoted(names) ==
    IF names = <<>> THEN ""
    ELSE IF Len(names) = 1 THEN "'" \o names[1] \o "'"
    ELSE "'" \o names[1] \o "', " \o JoinQuoted(Tail(names))

ListRepr(names) == "[" \o JoinQuoted(names) \o "]"

\* Lines 223-228
MissingFieldWarnings(players) ==
    IF Len(players) = 0 THEN <<>>
    ELSE Once(SelectSeq(ExpectedFields, LAMBDA f : f \notin DOMAIN players[1]),
              LAMBDA missing_fields :
                  IF missing_fields = <<>> THEN <<>>
                  ELSE <<"Missing player fields: "
                           \o ListRepr(missing_fields)>>)

\* validate_data(), lines 201-230: it reads self.data
validate_data(dict) ==
    Once(Len(Get(dict, "players", <<>>)), LAMBDA players :
    Once(Len(Get(dict, "fixtures", <<>>)), LAMBDA fixtures :
    Once(Len(Get(dict, "teams", <<>>)), LAMBDA teams :
        [is_valid |-> teams = TeamCount,
         warnings |->
             (IF players < MinPlayers
              THEN <<"Low player count: " \o NatStr(players)>> ELSE <<>>)
             \o (IF fixtures < MinFixtures
                 THEN <<"Low fixture count: " \o NatStr(fixtures)>>
                 ELSE <<>>)
             \o MissingFieldWarnings(Get(dict, "players", <<>>)),
         errors |->
             IF teams # TeamCount
             THEN <<"Invalid team count: " \o NatStr(teams)>> ELSE <<>>])))

\* The keys _generate_text_report subscripts in every player (lines 337-399)
PlayerReportFields ==
    {"id", "first_name", "second_name", "web_name", "team", "element_type",
     "now_cost", "cost_change_event", "cost_change_start",
     "selected_by_percent", "transfers_in_event", "transfers_out_event",
     "transfers_in", "transfers_out", "total_points", "points_per_game",
     "form", "minutes", "goals_scored", "assists", "bonus", "bps",
     "clean_sheets", "goals_conceded", "saves", "yellow_cards", "red_cards",
     "influence", "creativity", "threat", "ict_index", "status",
     "chance_of_playing_this_round", "chance_of_playing_next_round", "news",
     "value_form", "value_season", "ep_next", "ep_this", "dreamteam_count",
     "in_dreamteam"}

\* Every record of the list has the keys
AllHave(records, keys) ==
    \A k \in DOMAIN records : keys \subseteq DOMAIN records[k]

\* _generate_text_report(data, filename) raises no KeyError, lines 309-459
ReportWritable(dict) ==
    /\ AllHave(Get(dict, "teams", <<>>), {"id", "name", "short_name", "code"})
    /\ AllHave(Get(dict, "positions", <<>>), {"id", "singular_name_short"})
    /\ AllHave(Get(dict, "players", <<>>), PlayerReportFields)
    /\ \A p \in Range(Get(dict, "players", <<>>)) :
          p.news # "" => "news_added" \in DOMAIN p
    /\ AllHave(Get(dict, "fixtures", <<>>),
               {"event", "team_h", "team_a", "id", "finished",
                "team_h_difficulty", "team_a_difficulty"})
    /\ \A f \in Range(Get(dict, "fixtures", <<>>)) :
          IF f.finished
          THEN {"team_h_score", "team_a_score"} \subseteq DOMAIN f
          ELSE "kickoff_time" \in DOMAIN f
    /\ \A t \in Range(Get(dict, "teams", <<>>)) :
          t.id \in DOMAIN Get(dict, "team_stats", EmptyDict) =>
              {"games_played", "total_goals_scored", "total_goals_conceded"}
                  \subseteq DOMAIN dict.team_stats[t.id]
    /\ AllHave(Get(dict, "gameweeks", <<>>),
               {"finished", "id", "name", "deadline_time"})

\* The CSV block raises no exception of its own, lines 279-282: data has
\* players, and no player has a key the first one lacks (csv.DictWriter
\* raises ValueError for it)
CsvWritable(dict) ==
    /\ "players" \in DOMAIN dict
    /\ \A k \in DOMAIN dict.players :
          DOMAIN dict.players[k] \subseteq DOMAIN dict.players[1]

\* The files of one call, lines 256-298
SaveDir == output_dir \o "/" \o clock.date

PathOf(kind) ==
    CASE kind = "json" -> SaveDir \o "/fpl_data_" \o clock.time \o ".json"
      [] kind = "csv" -> SaveDir \o "/fpl_players_" \o clock.time \o ".csv"
      [] kind = "report" -> SaveDir \o "/fpl_report_" \o clock.time \o ".txt"
      [] kind = "validation" ->
             SaveDir \o "/validation_" \o clock.time \o ".json"

\* if data is None: data = self.data
DataSaved == IF data_arg.passed THEN data_arg.value ELSE self_data

\* What save_data validates: validate_data() reads self.data (line 239)
Validated == self_data

\* How a write can end: the file not opened, opened and left unfinished by
\* an exception, or written; a write that the data makes raise cannot be
\* finished
Outcomes(writable) ==
    IF writable THEN {"none", "partial", "complete"} ELSE {"none", "partial"}

\* A try block of save_data: whatever happens, the next block follows
WriteStep(kind, next, writable) ==
    /\ save_pc = kind
    /\ \E outcome \in Outcomes(writable) :
          /\ disk' = IF outcome = "none" THEN disk
                     ELSE Put(disk, PathOf(kind), outcome)
          /\ files_saved' = IF outcome = "complete"
                            THEN Put(files_saved, kind, PathOf(kind))
                            ELSE files_saved
    /\ save_pc' = next
    /\ UNCHANGED <<data_arg, output_dir, clock, validation>>
    /\ UNCHANGED collector
    /\ UNCHANGED comparator

\* datetime.now(), as strftime gives its date and its time
Stamps ==
    {[date |-> "2024-08-16", time |-> "120000"],
     [date |-> "2024-08-23", time |-> "090507"]}

\* Lines 235-253: the validation, the return of {} when it fails, the clock
SaveCall ==
    /\ save_pc = "call"
    /\ validation' = validate_data(Validated)
    /\ IF ~validation'.is_valid
       THEN /\ save_pc' = "returned"
            /\ UNCHANGED clock
       ELSE /\ save_pc' = "mkdir"
            /\ clock' \in Stamps
    /\ UNCHANGED <<data_arg, output_dir, files_saved, disk>>
    /\ UNCHANGED collector
    /\ UNCHANGED comparator

\* Lines 256-263: mkdir is outside every try block
MakeDir ==
    /\ save_pc = "mkdir"
    /\ \E made \in BOOLEAN :
          save_pc' = IF made THEN "json" ELSE "raised"
    /\ files_saved' = EmptyDict
    /\ UNCHANGED <<data_arg, output_dir, clock, validation, disk>>
    /\ UNCHANGED collector
    /\ UNCHANGED comparator

\* Lines 266-273: data that came from JSON can be dumped
WriteJson == WriteStep("json", "csv", TRUE)

\* Lines 276-286
WriteCsv == WriteStep("csv", "report", CsvWritable(DataSaved))

\* Lines 289-295
WriteReport == WriteStep("report", "validation", ReportWritable(DataSaved))

\* Lines 298-307
WriteValidation == WriteStep("validation", "returned", TRUE)

NextSave ==
    \/ SaveCall
    \/ MakeDir
    \/ WriteJson
    \/ WriteCsv
    \/ WriteReport
    \/ WriteValidation

\* The datasets a collector holds or is given to save.
FullPlayer(i) ==
    [f \in PlayerReportFields |->
        CASE f = "id" -> i
          [] f = "web_name" -> PlayerName(i)
          [] f = "news" -> ""
          [] OTHER -> 0]

FullTeam(i) == [id |-> i, name |-> "Team" \o NatStr(i),
                short_name |-> "T" \o NatStr(i), code |-> i]

FullFixture(i) ==
    [id |-> i, event |-> 1, team_h |-> 1, team_a |-> 2, finished |-> FALSE,
     team_h_score |-> Null, team_a_score |-> Null, kickoff_time |-> KickoffA,
     team_h_difficulty |-> 2, team_a_difficulty |-> 3]

SaveDataset(players, teams, fixtures) ==
    [players |-> [k \in 1..players |-> FullPlayer(k)],
     teams |-> [k \in 1..teams |-> FullTeam(k)],
     fixtures |-> [k \in 1..fixtures |-> FullFixture(k)],
     positions |-> <<[id |-> 1, singular_name_short |-> "GKP"]>>,
     gameweeks |-> <<[id |-> 1, name |-> "Gameweek 1", finished |-> FALSE,
                      deadline_time |-> KickoffA]>>]

\* A whole season, small datasets with the right and with a wrong number of
\* teams, the data of a new collector, a dataset whose first player has few
\* fields, and one without players
SaveDatasets ==
    {SaveDataset(MinPlayers, TeamCount, MinFixtures),
     SaveDataset(2, TeamCount, 2),
     SaveDataset(2, TeamCount - 1, 2),
     SaveDataset(2, TeamCount + 1, 2),
     EmptyDict,
     [SaveDataset(2, TeamCount, 2) EXCEPT
         !.players = <<[id |-> 1, web_name |-> "Player1"], FullPlayer(2)>>],
     Without(SaveDataset(2, TeamCount, 2), "players")}

\* save_data(), save_data(data) or save_data(self.data) on a collector
InitSave ==
    /\ files = EmptyDict
    /\ date1 = DateA
    /\ date2 = DateB
    /\ pc = "collector"
    /\ old_data = EmptyDict
    /\ new_data = EmptyDict
    /\ player_changes = EmptyPlayerComparison
    /\ fixture_changes = EmptyFixtureComparison
    /\ report = <<>>
    /\ calls = <<>>
    /\ visit = <<>>
    /\ self_data \in SaveDatasets
    /\ top_players = 0
    /\ net = EmptyDict
    /\ phase = "idle"
    /\ frame = NoFrame
    /\ result = NotReturned
    /\ api = NoCall
    /\ log = <<>>
    /\ save_pc = "call"
    /\ data_arg \in {NoArgument}
          \cup {[passed |-> TRUE, value |-> d] : d \in SaveDatasets}
    /\ output_dir = "data"
    /\ clock = [date |-> "", time |-> ""]
    /\ validation = NoValidation
    /\ files_saved = EmptyDict
    /\ disk = EmptyDict

SpecSave == InitSave /\ [][NextSave]_vars

(***************************************************************************)
(* Properties.                                                             *)
(***************************************************************************)
\* The report was rendered (a run that ends in an error returns one line).
Rendered == pc = "done" /\ Len(report) > 1

\* compare_players has returned: player_changes is its result.
PlayersCompared == pc \in {"players", "fixtures"} \/ Rendered

\* compare_fixtures has returned: fixture_changes is its result.
FixturesCompared == pc = "fixtures" \/ Rendered

PlayersOf(data) == Get(data, "players", <<>>)
FixturesOf(data) == Get(data, "fixtures", <<>>)

\* How often an entry occurs in a sequence
Count(seq, x) == Cardinality({k \in DOMAIN seq : seq[k] = x})

\* Every record has the fields the comparison reads, ownership is numeric,
\* and no id occurs twice.
WellFormed(data) ==
    /\ \A k \in DOMAIN PlayersOf(data) :
          /\ {"id", "web_name", "team", "now_cost", "selected_by_percent",
              "status"} \subseteq DOMAIN PlayersOf(data)[k]
          /\ PlayersOf(data)[k].selected_by_percent.kind = "num"
          /\ \A j \in DOMAIN PlayersOf(data) :
                PlayersOf(data)[j].id = PlayersOf(data)[k].id => j = k
    /\ \A k \in DOMAIN FixturesOf(data) :
          /\ {"id", "finished", "event", "team_h", "team_a", "team_h_score",
              "team_a_score"} \subseteq DOMAIN FixturesOf(data)[k]
          /\ \A j \in DOMAIN FixturesOf(data) :
                FixturesOf(data)[j].id = FixturesOf(data)[k].id => j = k

ZeroSummary ==
    <<"SUMMARY:", "----------------------------------------",
      "  Price changes: 0", "  Ownership changes: 0", "  Injury updates: 0",
      "  Form changes: 0", "  New players: 0", "  Removed players: 0",
      "  New results: 0">>

\* C1 (identity): comparing a snapshot with itself raises nothing when the
\* snapshot is well formed, leaves all eight categories empty, and renders
\* no section and a summary whose counts are all zero.
C1_Identity ==
    old_data = new_data =>
        /\ pc = "raised" => ~WellFormed(old_data)
        /\ PlayersCompared => player_changes = EmptyPlayerComparison
        /\ FixturesCompared => fixture_changes = EmptyFixtureComparison
        /\ Rendered => SubSeq(report, 6, Len(report)) = ZeroSummary

C1_Witness ==
    /\ Rendered
    /\ old_data = new_data
    /\ Len(PlayersOf(old_data)) = 2
    /\ Len(FixturesOf(old_data)) = 2
    /\ report[Len(report)] = "  New results: 0"

\* Players by name and team, as new_players and removed_players list them
NameTeam(entries) ==
    [k \in DOMAIN entries |-> [name |-> entries[k].name,
                               team |-> entries[k].team]]

SameBag(s, t) ==
    /\ Len(s) = Len(t)
    /\ \A x \in Range(s) \cup Range(t) : Count(s, x) = Count(t, x)

FieldLevelNames ==
    {e.name : e \in Range(player_changes.price_changes)
                     \cup Range(player_changes.ownership_changes)
                     \cup Range(player_changes.injury_updates)
                     \cup Range(player_changes.form_changes)}

\* The ids of the player list of a snapshot
IdsIn(data) == {PlayersOf(data)[k].id : k \in DOMAIN PlayersOf(data)}

\* The record of player i in a snapshot whose ids are unique
PlayerOf(data, i) ==
    PlayersOf(data)[CHOOSE k \in DOMAIN PlayersOf(data) :
                       PlayersOf(data)[k].id = i]

\* C2 (symmetry of membership): a player whose id is only in the newer
\* snapshot is listed once in new_players, with its name, team and price
\* (cost / 10), and in no field-level category; and the comparison run the
\* other way round, whatever order it visits the ids in, lists as removed
\* exactly the players listed as new here, and as new exactly those listed
\* as removed here.  (Stated where compare_players has just returned.)
C2_MembershipSymmetry ==
    pc = "players" =>
        /\ \A i \in IdsIn(new_data) \ IdsIn(old_data) :
              /\ Count(NameTeam(player_changes.new_players),
                       [name |-> PlayerOf(new_data, i).web_name,
                        team |-> PlayerOf(new_data, i).team]) = 1
              /\ \E e \in Range(player_changes.new_players) :
                    /\ e.name = PlayerOf(new_data, i).web_name
                    /\ e.price.d = 10 * PlayerOf(new_data, i).now_cost
              /\ PlayerOf(new_data, i).web_name \notin FieldLevelNames
        /\ Len(player_changes.new_players)
             = Cardinality(IdsIn(new_data) \ IdsIn(old_data))
        /\ \A order \in Orders(PlayerIds) :
              LET back == compare_players(new_data, old_data, order)
              IN  back.exc = NoExc =>
                    /\ SameBag(NameTeam(back.c.removed_players),
                               NameTeam(player_changes.new_players))
                    /\ SameBag(NameTeam(back.c.new_players),
                               NameTeam(player_changes.removed_players))

C2_Witness ==
    /\ pc = "players"
    /\ Len(player_changes.new_players) = 1
    /\ Len(player_changes.removed_players) = 1
    /\ compare_players(new_data, old_data, <<1, 2>>).exc = NoExc

\* The ids of the players in both snapshots
CommonIds == IdsIn(old_data) \cap IdsIn(new_data)

Magnitude(x) == IF x < 0 THEN -x ELSE x

EntriesNamed(entries, name) == {k \in DOMAIN entries : entries[k].name = name}

\* The ownership percentage of player i, in hundredths of a point
OwnershipOf(data, i) == PlayerOf(data, i).selected_by_percent.val

\* C3 (ownership threshold), as claimed: where compare_players has returned,
\* a player in both snapshots has an ownership-change entry if and only if
\* its two percentages differ by more than 2.0, so a change of exactly 2.0
\* is not reported; the entry carries change = new - old.
C3_OwnershipThreshold ==
    pc = "players" =>
        \A i \in CommonIds :
            LET delta == OwnershipOf(new_data, i) - OwnershipOf(old_data, i)
                found == EntriesNamed(player_changes.ownership_changes,
                                      PlayerOf(new_data, i).web_name)
            IN  /\ found # {} <=> Magnitude(delta) > 200
                /\ \A k \in found :
                      player_changes.ownership_changes[k].change.d = delta

\* The form of player i in hundredths; a record without form counts as 0
FormParses(data, i) ==
    Get(PlayerOf(data, i), "form", IntV(0)).kind \in {"num", "int"}

FormOf(data, i) ==
    IF "form" \in DOMAIN PlayerOf(data, i) THEN PlayerOf(data, i).form.val
    ELSE 0

\* C4 (form threshold), as claimed: where compare_players has returned, a
\* player in both snapshots whose two form values parse has a form-change
\* entry if and only if they differ by more than 1.0, so a change of exactly
\* 1.0 is not reported; the entry carries change = new - old.
C4_FormThreshold ==
    pc = "players" =>
        \A i \in CommonIds :
            FormParses(old_data, i) /\ FormParses(new_data, i) =>
                LET delta == FormOf(new_data, i) - FormOf(old_data, i)
                    found == EntriesNamed(player_changes.form_changes,
                                          PlayerOf(new_data, i).web_name)
                IN  /\ found # {} <=> Magnitude(delta) > 100
                    /\ \A k \in found :
                          player_changes.form_changes[k].change.d = delta

\* C5 (price changes have no threshold): where compare_players has
\* returned, a player in both snapshots has exactly one price-change entry
\* when its two costs differ and none when they are equal; the entry holds
\* the old cost / 10, the new cost / 10 and (new cost - old cost) / 10 (here
\* in hundredths: ten times the cost), and no entry has a zero change.
C5_PriceChanges ==
    pc = "players" =>
        /\ \A i \in CommonIds :
              LET old_cost == PlayerOf(old_data, i).now_cost
                  new_cost == PlayerOf(new_data, i).now_cost
                  found == EntriesNamed(player_changes.price_changes,
                                        PlayerOf(new_data, i).web_name)
              IN  /\ Cardinality(found)
                       = (IF old_cost # new_cost THEN 1 ELSE 0)
                  /\ \A k \in found :
                        LET e == player_changes.price_changes[k]
                        IN  /\ e.old_price.d = 10 * old_cost
                            /\ e.new_price.d = 10 * new_cost
                            /\ e.change.d = 10 * (new_cost - old_cost)
        /\ Len(player_changes.price_changes)
             = Cardinality({i \in CommonIds :
                              PlayerOf(old_data, i).now_cost
                                # PlayerOf(new_data, i).now_cost})
        /\ \A e \in Range(player_changes.price_changes) :
              e.change # DoubleOf(0)

C5_Witness ==
    /\ pc = "players"
    /\ Len(player_changes.price_changes) = 2
    /\ \E e \in Range(player_changes.price_changes) : e.change.d = 500
    /\ \E e \in Range(player_changes.price_changes) : e.change.d = -500

InReport(line) == \E k \in DOMAIN report : report[k] = line

\* The ids of the players whose cost goes from old_cost to new_cost
Repriced(old_cost, new_cost) ==
    {i \in CommonIds : /\ PlayerOf(old_data, i).now_cost = old_cost
                       /\ PlayerOf(new_data, i).now_cost = new_cost}

\* C6 (price delta sign), as claimed: a price going from 50.0 (cost 500) to
\* 55.0 (cost 550) is reported with the delta +0.5.
C6_DeltaAsClaimed ==
    Rendered =>
        \A i \in Repriced(500, 550) :
            InReport("  " \o PlayerOf(new_data, i).web_name
                          \o ": GBP50.0m -> GBP55.0m (+0.5)")

\* C6 (price delta sign), amended: a price going from 50.0 (cost 500) to
\* 55.0 (cost 550) has the delta 5.0 and is reported as +5.0, with a
\* leading "+"; a price going down from 55.0 to 50.0 has the delta -5.0 and
\* is reported as -5.0, with its "-" and no "+".
C6_PriceDeltaSign ==
    /\ PlayersCompared =>
          \A e \in Range(player_changes.price_changes) :
              /\ e.old_price.d = 5000 /\ e.new_price.d = 5500
                    => e.change = DoubleOf(500)
              /\ e.old_price.d = 5500 /\ e.new_price.d = 5000
                    => e.change = DoubleOf(-500)
    /\ Rendered =>
          /\ \A i \in Repriced(500, 550) :
                InReport("  " \o PlayerOf(new_data, i).web_name
                              \o ": GBP50.0m -> GBP55.0m (+5.0)")
          /\ \A i \in Repriced(550, 500) :
                InReport("  " \o PlayerOf(new_data, i).web_name
                              \o ": GBP55.0m -> GBP50.0m (-5.0)")

C6_Witness ==
    /\ Rendered
    /\ 1 \in Repriced(500, 550)
    /\ 2 \in Repriced(550, 500)
    /\ InReport("  Player1: GBP50.0m -> GBP55.0m (+5.0)")
    /\ InReport("  Player2: GBP55.0m -> GBP50.0m (-5.0)")

\* The section headers in the order of the claim, each with its category
SectionHeaders ==
    <<"PRICE CHANGES:", "SIGNIFICANT OWNERSHIP CHANGES (>2%):",
      "INJURY STATUS UPDATES:", "SIGNIFICANT FORM CHANGES:", "NEW PLAYERS:",
      "REMOVED PLAYERS:", "NEW MATCH RESULTS:">>

CategoryOf(header) ==
    CASE header = "PRICE CHANGES:" -> player_changes.price_changes
      [] header = "SIGNIFICANT OWNERSHIP CHANGES (>2%):"
            -> player_changes.ownership_changes
      [] header = "INJURY STATUS UPDATES:" -> player_changes.injury_updates
      [] header = "SIGNIFICANT FORM CHANGES:" -> player_changes.form_changes
      [] header = "NEW PLAYERS:" -> player_changes.new_players
      [] header = "REMOVED PLAYERS:" -> player_changes.removed_players
      [] header = "NEW MATCH RESULTS:" -> fixture_changes.new_results

\* The section headers and the summary header of the report, in its order
HeadersRendered ==
    SelectSeq(report,
              LAMBDA line : line \in Range(SectionHeaders) \cup {"SUMMARY:"})

\* C8 (report section order): the headers of a rendered report are those
\* of the non-empty categories, each once, in the order price changes,
\* ownership changes, injury updates, form changes, new players, removed
\* players, new results, followed by the summary, whose nine lines end the
\* report whether or not any category has entries.
C8_SectionOrder ==
    Rendered =>
        /\ HeadersRendered
             = SelectSeq(SectionHeaders,
                         LAMBDA header : CategoryOf(header) # <<>>)
                 \o <<"SUMMARY:">>
        /\ report[Len(report) - 8] = "SUMMARY:"
        /\ report[Len(report)]
             = "  New results: " \o NatStr(Len(fixture_changes.new_results))

C8_Witness ==
    /\ Rendered
    /\ Len(HeadersRendered) >= 4
    /\ player_changes.price_changes # <<>>
    /\ player_changes.form_changes # <<>>
    /\ player_changes.injury_updates = <<>>

FixtureIdsIn(data) == {FixturesOf(data)[k].id : k \in DOMAIN FixturesOf(data)}

\* The record of fixture i in a snapshot whose ids are unique
FixtureOf(data, i) ==
    FixturesOf(data)[CHOOSE k \in DOMAIN FixturesOf(data) :
                        FixturesOf(data)[k].id = i]

\* The fixtures in both snapshots that are finished in the newer one only
NewlyFinished ==
    {i \in FixtureIdsIn(old_data) \cap FixtureIdsIn(new_data) :
        /\ ~FixtureOf(old_data, i).finished
        /\ FixtureOf(new_data, i).finished}

ResultOf(fixture) ==
    [gameweek |-> fixture.event,
     home_team |-> fixture.team_h,
     away_team |-> fixture.team_a,
     score |-> IntStr(fixture.team_h_score.val) \o "-"
                 \o IntStr(fixture.team_a_score.val)]

\* C10 (fixture transition): where compare_fixtures has returned,
\* new_results has one entry for each fixture id in both snapshots that is
\* unfinished in the older and finished in the newer, and no other entry;
\* the entry has the gameweek and the team ids of the newer record and the
\* score "<home score>-<away score>", "2-1" for the scores 2 and 1.
C10_FixtureTransition ==
    pc = "fixtures" =>
        /\ Len(fixture_changes.new_results) = Cardinality(NewlyFinished)
        /\ \A i \in NewlyFinished :
              /\ Count(fixture_changes.new_results,
                       ResultOf(FixtureOf(new_data, i))) = 1
              /\ /\ FixtureOf(new_data, i).team_h_score = IntV(2)
                 /\ FixtureOf(new_data, i).team_a_score = IntV(1)
                 => \E e \in Range(fixture_changes.new_results) :
                       /\ e.home_team = FixtureOf(new_data, i).team_h
                       /\ e.score = "2-1"

C10_Witness ==
    /\ pc = "fixtures"
    /\ 1 \in NewlyFinished
    /\ FixtureOf(old_data, 1).event = 1
    /\ \E e \in Range(fixture_changes.new_results) :
          e.score = "2-1" /\ e.gameweek = 2
    /\ \E i \in FixtureIdsIn(old_data) \cap FixtureIdsIn(new_data) :
          FixtureOf(old_data, i).finished

\* The lines of a section of the report, between the rule under its header
\* and the empty line that ends it; none if the section is not rendered
SectionLines(header) ==
    IF ~InReport(header) THEN <<>>
    ELSE Let(CHOOSE k \in DOMAIN report : report[k] = header, LAMBDA at :
         Let(CHOOSE j \in DOMAIN report :
                /\ j > at
                /\ report[j] = ""
                /\ \A m \in (at + 1)..(j - 1) : report[m] # "", LAMBDA end :
             SubSeq(report, at + 2, end - 1)))

NewsLines ==
    {"    News: " \o u.news : u \in Range(player_changes.injury_updates)}

\* The injury section without the news lines: one line for each update
InjuryEntryLines ==
    SelectSeq(SectionLines("INJURY STATUS UPDATES:"),
              LAMBDA line : line \notin NewsLines)

SummaryLine(k) == report[Len(report) - 7 + k]

\* C7 (cap correctness): a rendered report has min(n, 20) price-change
\* lines, min(n, 15) ownership-change lines, min(n, 15) form-change lines
\* and min(n, 20) injury-update lines, n being the number of entries of the
\* category, and each count of the summary is the full number of entries of
\* its category; 30 price changes give 20 price lines and a count of 30.
C7_CapCorrectness ==
    Rendered =>
        /\ Len(SectionLines("PRICE CHANGES:"))
             = Min(Len(player_changes.price_changes), 20)
        /\ Len(SectionLines("SIGNIFICANT OWNERSHIP CHANGES (>2%):"))
             = Min(Len(player_changes.ownership_changes), 15)
        /\ Len(SectionLines("SIGNIFICANT FORM CHANGES:"))
             = Min(Len(player_changes.form_changes), 15)
        /\ Len(InjuryEntryLines)
             = Min(Len(player_changes.injury_updates), 20)
        /\ SummaryLine(1) = "  Price changes: "
                              \o NatStr(Len(player_changes.price_changes))
        /\ SummaryLine(2) = "  Ownership changes: "
                              \o NatStr(Len(player_changes.ownership_changes))
        /\ SummaryLine(3) = "  Injury updates: "
                              \o NatStr(Len(player_changes.injury_updates))
        /\ SummaryLine(4) = "  Form changes: "
                              \o NatStr(Len(player_changes.form_changes))
        /\ SummaryLine(5) = "  New players: "
                              \o NatStr(Len(player_changes.new_players))
        /\ SummaryLine(6) = "  Removed players: "
                              \o NatStr(Len(player_changes.removed_players))
        /\ SummaryLine(7) = "  New results: "
                              \o NatStr(Len(fixture_changes.new_results))
        /\ Cardinality({i \in CommonIds :
                          PlayerOf(old_data, i).now_cost
                            # PlayerOf(new_data, i).now_cost}) = 30
             => /\ Len(SectionLines("PRICE CHANGES:")) = 20
                /\ SummaryLine(1) = "  Price changes: 30"

C7_Witness ==
    /\ Rendered
    /\ Len(player_changes.price_changes) = 30
    /\ Len(SectionLines("PRICE CHANGES:")) = 20
    /\ SummaryLine(1) = "  Price changes: 30"
    /\ Len(player_changes.ownership_changes) = 30
    /\ Len(SectionLines("SIGNIFICANT OWNERSHIP CHANGES (>2%):")) = 15
    /\ Len(player_changes.injury_updates) = 30
    /\ Len(InjuryEntryLines) = 20
    /\ Len(SectionLines("INJURY STATUS UPDATES:")) > 20

\* |a| >= |b| and |a| = |b| for two deltas
AtLeast(a, b) == ~FGt(abs(b), abs(a))
SameSize(a, b) == AtLeast(a, b) /\ AtLeast(b, a)

\* The lines of a section show entries of its category, one each, in
\* descending order of |change|, with equal sizes in the order of the
\* category, and no entry left out is larger than one shown.
SortedSection(lines, entries, Line(_)) ==
    Let([j \in DOMAIN entries |-> Line(entries[j])], LAMBDA all :
        /\ \A k \in DOMAIN lines :
              Cardinality({j \in DOMAIN all : all[j] = lines[k]}) = 1
        /\ Let([k \in DOMAIN lines |->
                  CHOOSE j \in DOMAIN all : all[j] = lines[k]], LAMBDA at :
              /\ \A k, m \in DOMAIN lines : at[k] = at[m] => k = m
              /\ \A k \in 1..(Len(lines) - 1) :
                    /\ AtLeast(entries[at[k]].change,
                               entries[at[k + 1]].change)
                    /\ SameSize(entries[at[k]].change,
                                entries[at[k + 1]].change)
                         => at[k] < at[k + 1]
              /\ \A j \in DOMAIN entries \ Range(at) :
                    \A k \in DOMAIN lines :
                        AtLeast(entries[at[k]].change, entries[j].change)))

\* C9 (sorted by magnitude): the price, ownership and form sections of a
\* rendered report list their entries in descending order of the absolute
\* value of the delta, entries of equal magnitude in the order in which the
\* comparison produced them, and no entry dropped by the cap is larger in
\* magnitude than an entry shown.
C9_SortedByMagnitude ==
    Rendered =>
        /\ SortedSection(SectionLines("PRICE CHANGES:"),
                         player_changes.price_changes, PriceLine)
        /\ SortedSection(SectionLines("SIGNIFICANT OWNERSHIP CHANGES (>2%):"),
                         player_changes.ownership_changes, OwnershipLine)
        /\ SortedSection(SectionLines("SIGNIFICANT FORM CHANGES:"),
                         player_changes.form_changes, FormLine)

C9_Witness ==
    /\ Rendered
    /\ Len(player_changes.price_changes) = 30
    /\ Len(SectionLines("PRICE CHANGES:")) = 20
    /\ SectionLines("PRICE CHANGES:")[1]
         # PriceLine(player_changes.price_changes[1])
    /\ \E j, k \in DOMAIN player_changes.price_changes :
          /\ j # k
          /\ SameSize(player_changes.price_changes[j].change,
                      player_changes.price_changes[k].change)
          /\ PriceLine(player_changes.price_changes[j])
               \in Range(SectionLines("PRICE CHANGES:"))
          /\ PriceLine(player_changes.price_changes[k])
               \in Range(SectionLines("PRICE CHANGES:"))
    /\ \E j \in DOMAIN player_changes.price_changes :
          PriceLine(player_changes.price_changes[j])
            \notin Range(SectionLines("PRICE CHANGES:"))

\* The kickoff timestamp of a fixture record, None when it has none
KickoffOf(fixture) ==
    IF "kickoff_time" \in DOMAIN fixture THEN fixture.kickoff_time
    ELSE NoneTime

\* The fixtures in both snapshots whose kickoff timestamps differ
Rescheduled ==
    {i \in FixtureIdsIn(old_data) \cap FixtureIdsIn(new_data) :
        KickoffOf(FixtureOf(old_data, i)) # KickoffOf(FixtureOf(new_data, i))}

TimeChangeOf(old_f, new_f) ==
    [gameweek |-> new_f.event,
     home_team |-> new_f.team_h,
     away_team |-> new_f.team_a,
     old_time |-> KickoffOf(old_f),
     new_time |-> KickoffOf(new_f)]

\* C11 (kickoff change): where compare_fixtures has returned,
\* fixture_changes has one entry for each fixture id in both snapshots whose
\* kickoff timestamp differs, a timestamp absent from one record counting
\* as None, and no other entry; the entry has the old and the new timestamp;
\* and a fixture that is newly finished and rescheduled has a new-result
\* entry as well as a fixture-time-change entry.
C11_KickoffChange ==
    pc = "fixtures" =>
        /\ Len(fixture_changes.fixture_changes) = Cardinality(Rescheduled)
        /\ \A i \in Rescheduled :
              Count(fixture_changes.fixture_changes,
                    TimeChangeOf(FixtureOf(old_data, i),
                                 FixtureOf(new_data, i))) = 1
        /\ \A i \in Rescheduled \cap NewlyFinished :
              Count(fixture_changes.new_results,
                    ResultOf(FixtureOf(new_data, i))) = 1

C11_Witness ==
    /\ pc = "fixtures"
    /\ 1 \in Rescheduled \cap NewlyFinished
    /\ "kickoff_time" \notin DOMAIN FixtureOf(old_data, 1)
    /\ Len(fixture_changes.new_results) = 1
    /\ \E e \in Range(fixture_changes.fixture_changes) :
          e.home_team = 1 /\ e.old_time = NoneTime /\ e.new_time = KickoffB
    /\ 2 \in FixtureIdsIn(old_data) \cap FixtureIdsIn(new_data)
    /\ 2 \notin Rescheduled

\* A player record without one of the fields the comparison requires
Malformed(p) == ~(RequiredFields \subseteq DOMAIN p)

MalformedIn(data) ==
    {k \in DOMAIN PlayersOf(data) : Malformed(PlayersOf(data)[k])}

\* Every ownership percentage of a snapshot is a number
OwnershipParses(data) ==
    \A k \in DOMAIN PlayersOf(data) :
        "selected_by_percent" \in DOMAIN PlayersOf(data)[k]
            => PlayersOf(data)[k].selected_by_percent.kind = "num"

\* The ids of the well-formed records of a snapshot, and the record of an id
SoundIds(data) ==
    {PlayersOf(data)[k].id : k \in DOMAIN PlayersOf(data) \ MalformedIn(data)}

RecordOf(data, i) ==
    PlayersOf(data)[CHOOSE k \in DOMAIN PlayersOf(data) \ MalformedIn(data) :
                       PlayersOf(data)[k].id = i]

\* The snapshots are loaded and compare_players has been called or not yet
Loaded == pc \in {"loaded", "players", "fixtures", "raised", "done"}

\* The price-change and injury-update entries of the players whose records
\* are well formed in both snapshots are those their records call for
SoundPlayersCompared ==
    \A i \in SoundIds(old_data) \cap SoundIds(new_data) :
        LET old_p == RecordOf(old_data, i)
            new_p == RecordOf(new_data, i)
        IN  /\ Cardinality(EntriesNamed(player_changes.price_changes,
                                        new_p.web_name))
                 = (IF old_p.now_cost # new_p.now_cost THEN 1 ELSE 0)
            /\ Cardinality(EntriesNamed(player_changes.injury_updates,
                                        new_p.web_name))
                 = (IF old_p.status # new_p.status THEN 1 ELSE 0)

\* C12 (malformed-record tolerance), as claimed: when one player record of
\* the two snapshots lacks id, web_name, now_cost, selected_by_percent or
\* status (and every ownership percentage is a number), the comparison
\* raises nothing, and once compare_players has returned the entries of the
\* well-formed players are there.
C12_MalformedTolerance ==
    /\ Loaded
    /\ Cardinality(MalformedIn(old_data)) + Cardinality(MalformedIn(new_data))
         = 1
    /\ OwnershipParses(old_data)
    /\ OwnershipParses(new_data)
    => /\ pc # "raised"
       /\ pc = "players" => SoundPlayersCompared

\* The ownership percentage of the record of player i is no number
OwnershipUnparsed(data, i) ==
    RecordOf(data, i).selected_by_percent.kind # "num"

\* C13 (ownership parse failures never escalate), as claimed: when every
\* record is well formed and the ownership percentage of a player in both
\* snapshots is no number, the comparison raises nothing, and once
\* compare_players has returned the price-change and injury-update entries
\* of the players are there.
C13_OwnershipParseFailure ==
    /\ Loaded
    /\ MalformedIn(old_data) = {}
    /\ MalformedIn(new_data) = {}
    /\ \E i \in SoundIds(old_data) \cap SoundIds(new_data) :
          OwnershipUnparsed(old_data, i) \/ OwnershipUnparsed(new_data, i)
    => /\ pc # "raised"
       /\ pc = "players" => SoundPlayersCompared

\* The form of a record is there and is no number
FormUnparsed(p) ==
    "form" \in DOMAIN p /\ p.form.kind \in {"str", "null"}

\* The players in both snapshots whose form is no number in one of them
FormUnparsedIds ==
    {i \in SoundIds(old_data) \cap SoundIds(new_data) :
        FormUnparsed(RecordOf(old_data, i))
          \/ FormUnparsed(RecordOf(new_data, i))}

\* A snapshot with the form of those players set to the number 1.2
WithFormParsed(data) ==
    [data EXCEPT !.players =
        [k \in DOMAIN PlayersOf(data) |->
            LET p == PlayersOf(data)[k]
            IN  IF p.id \in FormUnparsedIds
                THEN [f \in DOMAIN p \cup {"form"} |->
                         IF f = "form" THEN Num(120) ELSE p[f]]
                ELSE p]]

\* C14 (form parse failures skip only the form check): when every record is
\* well formed and every ownership is a number, the comparison raises
\* nothing, whatever the form values are; once compare_players has returned,
\* a player whose form is a string that is no number or null in either
\* snapshot has no form-change entry, its price-change and injury-update
\* entries are those its records call for, and the whole result is the one
\* the comparison gives when the form of these players is a number, the
\* same in both snapshots.
C14_FormParseFailure ==
    /\ Loaded
    /\ MalformedIn(old_data) = {}
    /\ MalformedIn(new_data) = {}
    /\ OwnershipParses(old_data)
    /\ OwnershipParses(new_data)
    => /\ pc # "raised"
       /\ pc = "players" =>
             /\ \A i \in FormUnparsedIds :
                   EntriesNamed(player_changes.form_changes,
                                RecordOf(new_data, i).web_name) = {}
             /\ SoundPlayersCompared
             /\ \E order \in Orders(PlayerIds) :
                   player_changes
                     = compare_players(WithFormParsed(old_data),
                                       WithFormParsed(new_data), order).c

C14_Witness ==
    /\ pc = "players"
    /\ MalformedIn(old_data) = {}
    /\ MalformedIn(new_data) = {}
    /\ FormUnparsedIds = {1}
    /\ Get(RecordOf(old_data, 1), "form", Null) = Num(230)
    /\ Get(RecordOf(new_data, 1), "form", Num(0)) = Null
    /\ Len(player_changes.price_changes) = 2
    /\ Len(player_changes.ownership_changes) = 2
    /\ Len(player_changes.injury_updates) = 2
    /\ player_changes.form_changes = <<>>

NoForm(p) == "form" \notin DOMAIN p

FormIsNumber(p) == "form" \in DOMAIN p /\ p.form.kind = "num"

\* The form-change entries of the player of record new_p
FormEntries(new_p) ==
    {player_changes.form_changes[k] :
        k \in EntriesNamed(player_changes.form_changes, new_p.web_name)}

\* C15 (missing form defaults to 0): when every record is well formed and
\* every ownership is a number, a record without form raises nothing; once
\* compare_players has returned, a player without form in both snapshots
\* has no form-change entry, and a player without form in one snapshot and
\* with a numeric form in the other has a form-change entry if and only if
\* that form is above 1.0 in absolute value, the entry holding 0 for the
\* missing form and change = new - old.
C15_MissingForm ==
    /\ Loaded
    /\ MalformedIn(old_data) = {}
    /\ MalformedIn(new_data) = {}
    /\ OwnershipParses(old_data)
    /\ OwnershipParses(new_data)
    => /\ pc # "raised"
       /\ pc = "players" =>
             \A i \in SoundIds(old_data) \cap SoundIds(new_data) :
                LET old_p == RecordOf(old_data, i)
                    new_p == RecordOf(new_data, i)
                IN  /\ NoForm(old_p) /\ NoForm(new_p)
                         => FormEntries(new_p) = {}
                    /\ NoForm(old_p) /\ FormIsNumber(new_p)
                         => /\ FormEntries(new_p) # {}
                                 <=> Magnitude(new_p.form.val) > 100
                            /\ \A e \in FormEntries(new_p) :
                                  /\ e.old_form = DoubleOf(0)
                                  /\ e.new_form.d = new_p.form.val
                                  /\ e.change.d = new_p.form.val
                    /\ FormIsNumber(old_p) /\ NoForm(new_p)
                         => /\ FormEntries(new_p) # {}
                                 <=> Magnitude(old_p.form.val) > 100
                            /\ \A e \in FormEntries(new_p) :
                                  /\ e.new_form = DoubleOf(0)
                                  /\ e.old_form.d = old_p.form.val
                                  /\ e.change.d = -old_p.form.val

C15_Witness ==
    /\ pc = "players"
    /\ MalformedIn(old_data) = {}
    /\ MalformedIn(new_data) = {}
    /\ NoForm(RecordOf(old_data, 1))
    /\ FormIsNumber(RecordOf(new_data, 1))
    /\ RecordOf(new_data, 1).form = Num(101)
    /\ Len(player_changes.form_changes) = 1
    /\ player_changes.form_changes[1].old_form = DoubleOf(0)
    /\ player_changes.form_changes[1].change.d = 101

SummaryCounts ==
    Let(CHOOSE k \in DOMAIN report : report[k] = "SUMMARY:", LAMBDA at :
        SubSeq(report, at + 2, Len(report)))

\* The sequences the two comparisons compute: six about players, two about
\* fixtures
Categories ==
    {<<"players", k>> : k \in DOMAIN player_changes}
        \cup {<<"fixtures", k>> : k \in DOMAIN fixture_changes}

\* C17 (the summary counts every category), as claimed: the summary of a
\* rendered report has one count for each of the eight sequences of the two
\* comparisons, the fixture-time changes among them.
C17_SummaryCountsAll ==
    Rendered =>
        /\ Cardinality(Categories) = 8
        /\ Len(SummaryCounts) = Cardinality(Categories)

\* The records of a list that no later record of the list shares its id with
LastRecords(records) ==
    SelectSeq([k \in DOMAIN records |-> [at |-> k, rec |-> records[k]]],
              LAMBDA e : \A j \in DOMAIN records :
                            records[j].id = e.rec.id => j <= e.at)

WithoutDuplicates(data) ==
    [data EXCEPT !.players = [k \in DOMAIN LastRecords(data.players) |->
                                 LastRecords(data.players)[k].rec],
                 !.fixtures = [k \in DOMAIN LastRecords(data.fixtures) |->
                                  LastRecords(data.fixtures)[k].rec]]

HasDuplicates(records) ==
    \E j, k \in DOMAIN records :
        j < k /\ records[j].id = records[k].id /\ records[j] /= records[k]

\* C18 (indexing is last-write-wins): when a snapshot holds several player
\* or fixture records of one id, the comparison raises nothing and its
\* result is the result of comparing the snapshots with only the last
\* record of every id kept; so every category has at most one entry for an
\* id, computed from that last record.
C18_LastWriteWins ==
    /\ pc /= "raised"
    /\ pc \in {"players", "fixtures", "done"} =>
          /\ player_changes \in
                {compare_players(WithoutDuplicates(old_data),
                                 WithoutDuplicates(new_data), order).c :
                    order \in Orders(PlayerIds)}
          /\ \A k \in DOMAIN player_changes :
                Len(player_changes[k]) <= Cardinality(PlayerIds)
    /\ pc \in {"fixtures", "done"} =>
          /\ fixture_changes \in
                {compare_fixtures(WithoutDuplicates(old_data),
                                  WithoutDuplicates(new_data), order).c :
                    order \in Orders(FixtureIds)}
          /\ \A k \in DOMAIN fixture_changes :
                Len(fixture_changes[k]) <= Cardinality(FixtureIds)

\* A report over snapshots in which player 1 has three records, the first
\* unlike the last, and gets its one price entry from the last ones
C18_Witness ==
    /\ pc = "done"
    /\ Len(old_data.players) = 3
    /\ \A k \in 1..3 : old_data.players[k].id = 1
    /\ old_data.players[1] = Relisted(BasePlayer(1))
    /\ old_data.players[3] = BasePlayer(1)
    /\ HasDuplicates(new_data.players)
    /\ new_data.players[Len(new_data.players)] = Relisted(BasePlayer(1))
    /\ Len(player_changes.price_changes) = 1
    /\ player_changes.price_changes[1].name = "Other"
    /\ player_changes.price_changes[1].old_price = Div10(500)

\* The calls of _api_call so far, each by the place of its call event, and
\* the events of one call: those up to the next call event
CallStarts == {k \in DOMAIN log : log[k].kind = "call"}

CallEvents(c) ==
    {k \in c..Len(log) : \A j \in (c + 1)..k : log[j].kind # "call"}

EventsOf(c, kind) == {k \in CallEvents(c) : log[k].kind = kind}

FailedRequests(c) == {k \in EventsOf(c, "request") : ~log[k].ok}

\* The events of a call are in order: the last of them is at
LastOf(c) == c + Cardinality(CallEvents(c)) - 1

ReturnsNone(c) ==
    \E r \in EventsOf(c, "return") : log[r].value.kind = "null"

\* One call of _api_call keeps to the retry protocol
RetryProtocol(c) ==
    /\ Cardinality(EventsOf(c, "request")) <= MAX_RETRIES
    /\ Cardinality(EventsOf(c, "wait")) <= MAX_RETRIES - 1
    /\ \A k \in EventsOf(c, "request") :
          IF log[k].ok
          THEN /\ k + 1 = LastOf(c)
               /\ log[k + 1].kind = "return"
               /\ log[k + 1].value = net[log[c].url]
               /\ log[k].url = log[c].url
          ELSE IF Cardinality({j \in EventsOf(c, "request") : j <= k})
                      < MAX_RETRIES
          THEN k + 1 <= LastOf(c) =>
                  /\ log[k + 1].kind = "wait"
                  /\ log[k + 1].value = IntV(RETRY_DELAY)
          ELSE /\ k + 1 = LastOf(c)
               /\ log[k + 1].kind = "return"
    /\ \A w \in EventsOf(c, "wait") : w - 1 \in FailedRequests(c)
    /\ \A r \in EventsOf(c, "return") :
          /\ r = LastOf(c)
          /\ log[r].value.kind = "null"
                <=> Cardinality(FailedRequests(c)) = MAX_RETRIES

Returned(c) == EventsOf(c, "return") # {}

\* C19 (retry protocol of _api_call): a call issues at most MAX_RETRIES
\* requests; the first request that succeeds ends it, and it returns that
\* response; it returns None exactly when MAX_RETRIES requests have failed;
\* it waits RETRY_DELAY after every failed request but the last, so at most
\* MAX_RETRIES - 1 times; and every call returns.
C19_RetryProtocol ==
    /\ [](\A c \in CallStarts : RetryProtocol(c))
    /\ \A n \in 1..(3 + MaxTopPlayers) :
          (Cardinality(CallStarts) >= n)
              ~> (Cardinality({c \in CallStarts : Returned(c)}) >= n)

\* A collection in which one call gave up after MAX_RETRIES failed requests
\* and MAX_RETRIES - 1 waits, and another returned the response of its
\* second request
C19_Witness ==
    /\ \E c \in CallStarts :
          /\ ReturnsNone(c)
          /\ Cardinality(FailedRequests(c)) = MAX_RETRIES
          /\ Cardinality(EventsOf(c, "wait")) = MAX_RETRIES - 1
    /\ \E c \in CallStarts :
          /\ Returned(c)
          /\ ~ReturnsNone(c)
          /\ Cardinality(EventsOf(c, "request")) = 2
          /\ Cardinality(EventsOf(c, "wait")) = 1

\* The place of a request in the pipeline, by its URL
StageOf(url) ==
    CASE url = BootstrapUrl -> 1
      [] url = FixturesUrl -> 2
      [] url \in {LiveUrl(gw) : gw \in 1..3} -> 3
      [] OTHER -> 4

\* The calls of _api_call for one URL that have returned None
FailedCalls(url) == {c \in CallStarts : log[c].url = url /\ ReturnsNone(c)}

\* The players whose history was asked for and came back as None
FailedHistoryIds ==
    {i \in 1..3 : FailedCalls(SummaryUrl(i)) # {}}

BootstrapFailed == FailedCalls(BootstrapUrl) # {}

\* The requests are issued in the order of the pipeline
PipelineOrder ==
    /\ \A k \in DOMAIN log :
          log[k].kind = "request" =>
              \E c \in CallStarts : k \in CallEvents(c) /\ log[k].url = log[c].url
    /\ \A c \in CallStarts : c = 1 <=> log[c].url = BootstrapUrl
    /\ \A c1, c2 \in CallStarts :
          c1 < c2 =>
              \/ StageOf(log[c1].url) < StageOf(log[c2].url)
              \/ /\ StageOf(log[c1].url) = 4
                 /\ StageOf(log[c2].url) = 4
                 /\ log[c1].url # log[c2].url

\* A failed bootstrap fetch ends the collection at once, with nothing stored
BootstrapFailure ==
    BootstrapFailed =>
        /\ phase = "returned"
        /\ result = [returned |-> TRUE, value |-> EmptyDict]
        /\ Cardinality(CallStarts) = 1
        /\ DOMAIN self_data = {}

\* The dataset returned by a collection whose bootstrap fetch succeeded
Collected ==
    phase = "returned" /\ Cardinality(CallStarts) > 1

\* No other failure aborts the collection
OtherFailures ==
    Collected =>
        /\ result = [returned |-> TRUE, value |-> self_data]
        /\ Cardinality(CallStarts)
              = 3 + Min(top_players, Len(self_data.players))
        /\ \A c \in CallStarts : Returned(c)
        /\ FailedCalls(FixturesUrl) # {} => Len(self_data.fixtures) = 0
        /\ (\E gw \in 1..3 : FailedCalls(LiveUrl(gw)) # {})
              => DOMAIN self_data.live_gameweek = {}
        /\ \A i \in FailedHistoryIds :
              i \notin DOMAIN self_data.player_histories
        /\ "metadata" \in DOMAIN result.value
        /\ result.value.metadata.histories_collected
              = Cardinality(DOMAIN self_data.player_histories)

\* C20 (collection pipeline of collect_all_data): the requests go out in
\* the order bootstrap, fixtures, live gameweek, player histories; a failed
\* bootstrap fetch ends the call with an empty result, no further request
\* and nothing stored; a failed fetch of the fixtures, of the live data or
\* of a player's history leaves an empty list, an empty mapping or no
\* history of that player, and the collection still comes to its end and
\* returns the dataset, whose metadata counts the histories stored.
C20_CollectionPipeline ==
    /\ [](PipelineOrder /\ BootstrapFailure /\ OtherFailures)
    /\ <>(phase = "returned")

\* A collection that has returned its dataset although the fetches of the
\* fixtures, of the live data and of one of two histories failed
C20_Witness ==
    /\ Collected
    /\ FailedCalls(FixturesUrl) # {}
    /\ FailedCalls(LiveUrl(2)) # {}
    /\ Cardinality(FailedHistoryIds) = 1
    /\ Cardinality(DOMAIN self_data.player_histories) = 1
    /\ result.value.metadata.histories_collected = 1
    /\ result.value.fixtures = <<>>

\* The kinds of output, in the order save_data writes them
Kinds == <<"json", "csv", "report", "validation">>

\* The kinds whose file was written to its end
Written ==
    {kind \in Range(Kinds) : Get(disk, PathOf(kind), "none") = "complete"}

\* After the validation of dict: nothing is written and {} is returned when
\* it is not valid; otherwise the mapping returned has exactly the kinds
\* written, each with its path.
GatedBy(dict) ==
    save_pc # "call" =>
        IF ~validate_data(dict).is_valid
        THEN /\ save_pc = "returned"
             /\ files_saved = EmptyDict
             /\ disk = EmptyDict
        ELSE save_pc = "returned" =>
                 files_saved = [kind \in Written |-> PathOf(kind)]

\* Errors block saving, warnings do not
GateStep(dict) ==
    save_pc = "call" =>
        (save_pc' = "returned") = ~validate_data(dict).is_valid

\* Each output is followed by the next, whether it was written or not
Independent ==
    \A k \in DOMAIN Kinds :
        save_pc = Kinds[k] =>
            save_pc' = IF k < Len(Kinds) THEN Kinds[k + 1] ELSE "returned"

\* What save_data does: self.data gates saving, whatever data is saved; and
\* save_data ends in an exception only when mkdir raised, with no file
\* written.
SaveGatedBySelfData ==
    /\ [](GatedBy(Validated) \/ (save_pc = "raised" /\ disk = EmptyDict))
    /\ [][GateStep(Validated) /\ Independent
          /\ (save_pc' = "raised" => save_pc = "mkdir")]_vars

\* C21: as claimed, the validation of the data being saved gates saving:
\* when it is not valid save_data writes no file and returns an empty
\* mapping, warnings alone never block saving, and when it is valid the four
\* outputs are attempted one after the other, whatever happened to the ones
\* before, and the mapping returned has exactly the kinds written.
C21_ValidationGatesSaving ==
    /\ [](GatedBy(DataSaved) /\ save_pc # "raised")
    /\ [][GateStep(DataSaved) /\ Independent]_vars

=============================================================================
